---- MODULE Spec2Model ----
(***************************************************************************)
(* The draw engine of the bingo simulator: BingoGame (src/src/game.ts),    *)
(* the bonus handlers and their registry (src/src/bonus.ts) and the        *)
(* StatisticsManager (src/src/statistics.ts).                              *)
(*                                                                         *)
(* A card is the array of 25 cells, indexed 0..24 as in the source.  Every *)
(* public method is one action.  Math.random() is the only input of the    *)
(* engine: the number drawn ranges over 1..25; every other call returns    *)
(* k / RandomLevels, with one k for the pre-draw phase, one for each       *)
(* handler pick and one for the cells a bonus picks.                       *)
(***************************************************************************)
EXTENDS Integers, Sequences, FiniteSets, TLC

\* ------------------------------------------------------------------ bounds

\* draws recorded since construction or the last reset()
MaxDraws == 2
\* Math.random() takes the values k / RandomLevels, k in 0..RandomLevels-1
RandomLevels == 2
\* the largest count handed to drawMultiple
MaxCount == 2
\* configuration setter calls in one run
MaxSetterCalls == 1
\* reset() calls in a row
MaxResets == 2
\* draws made before a handler is run on the card on its own
MaxPreparingDraws == 1
\* writes a caller makes to the array it got from getCard()
MaxWrites == 1
\* record calls made on a statistics manager on its own
MaxRecords == 2
\* draws run step by step
MaxSteppedDraws == 1
\* handler calls made in a row on one card
MaxHandlerCalls == 6

\* --------------------------------------------------------------- constants

GRID_SIZE == 5
FREE_CELL_NUMBER == 13
CARD_SIZE == 25

Idx == 0..(CARD_SIZE - 1)

\* an array (indices from 0) and a list (positions from 1) held as values,
\* not as expressions to evaluate again at every read
Array(f) == f @@ << >>
List(s) == s \o << >>

ALL_LINES ==
  << <<0, 1, 2, 3, 4>>, <<5, 6, 7, 8, 9>>, <<10, 11, 12, 13, 14>>,
     <<15, 16, 17, 18, 19>>, <<20, 21, 22, 23, 24>>,
     <<0, 5, 10, 15, 20>>, <<1, 6, 11, 16, 21>>, <<2, 7, 12, 17, 22>>,
     <<3, 8, 13, 18, 23>>, <<4, 9, 14, 19, 24>>,
     <<0, 6, 12, 18, 24>>, <<4, 8, 12, 16, 20>> >>

LineIds == 1..Len(ALL_LINES)

\* the cells of each line, and the lines through each cell
LineCells == [l \in LineIds |-> {ALL_LINES[l][j] : j \in 1..Len(ALL_LINES[l])}]
CellLines == [i \in Idx |-> {l \in LineIds : i \in LineCells[l]}]

\* line.includes(idx)
LineIncludes(l, idx) == idx \in LineCells[l]

\* the registered kinds, in registration order (Map insertion order)
RegistryAll ==
  << "UNLOCK_RANDOM_ONE", "RANDOM_THREE_WITH_MISS", "ACTIVATE_VERTICAL",
     "ACTIVATE_HORIZONTAL", "ACTIVATE_CROSS", "ACTIVATE_X_DIAGONAL",
     "ACTIVATE_COLUMN_LINE", "ACTIVATE_ROW_LINE" >>

BonusTypes == {RegistryAll[j] : j \in 1..Len(RegistryAll)}

\* a registry lookup that falls back to the first registered handler
RegistryGetOrFirst(type) == IF type \in BonusTypes THEN type ELSE RegistryAll[1]

\* BonusRegistry.get: the handler of a kind, "undefined" when none is registered
RegistryGet(type) == IF type \in BonusTypes THEN type ELSE "undefined"

\* a kind of the BonusType enumeration no handler is registered for
UnregisteredType == "ACTIVATE_BOX"

\* the entries of ALL_LINES that are columns, and those that are rows
ColumnLineIds == 1..GRID_SIZE
RowLineIds == (GRID_SIZE + 1)..(2 * GRID_SIZE)

Modes == {"none", "disabled", "random", "fixed"}

\* ------------------------------------------------------------------ random

Rand == 0..(RandomLevels - 1)

\* Math.floor(Math.random() * len) with Math.random() = k / RandomLevels
RandIndex(k, len) == (k * len) \div RandomLevels

\* the array [0, 1, .., n-1]
Iota(n) == List([j \in 1..n |-> j - 1])

\* game.ts shuffle: Fisher-Yates from the last position down, in place
RECURSIVE ShuffleFrom(_, _, _)
ShuffleFrom(items, i, k) ==
  IF i < 2 THEN items
  ELSE LET j == RandIndex(k, i) + 1
       IN ShuffleFrom([items EXCEPT ![i] = items[j], ![j] = items[i]], i - 1, k)

shuffle(items, k) == ShuffleFrom(items, Len(items), k)

\* -------------------------------------------------------------------- card

\* a cell created inactive whatever its number
NewCellInactive(number) ==
  [number |-> number, isActive |-> FALSE,
   isFree |-> number = FREE_CELL_NUMBER, isReach |-> FALSE, isLine |-> FALSE]

NewCell(number) ==
  [number |-> number, isActive |-> number = FREE_CELL_NUMBER,
   isFree |-> number = FREE_CELL_NUMBER, isReach |-> FALSE, isLine |-> FALSE]

createInitialCard == Array([i \in Idx |-> NewCell(i + 1)])

\* line.filter((idx) => this.card[idx].isActive).length
LineActiveCount(c, l) == Cardinality({i \in LineCells[l] : c[i].isActive})

LineInactiveCount(c, l) == Cardinality({i \in LineCells[l] : ~c[i].isActive})

\* an updateReachStatus that sets the new marks without clearing the old ones
updateReachStatusKeepingMarks(c) ==
  LET reach == UNION {LineCells[l] : l \in {m \in LineIds :
                        LineActiveCount(c, m) = 4 /\ LineInactiveCount(c, m) = 1}}
  IN Array([i \in Idx |-> [c[i] EXCEPT !.isReach = c[i].isReach \/ i \in reach]])

updateReachStatus(c) ==
  LET reach == UNION {LineCells[l] : l \in {x \in LineIds : LineActiveCount(c, x) = 4
                                                            /\ LineInactiveCount(c, x) = 1}}
  IN Array([i \in Idx |-> [c[i] EXCEPT !.isReach = i \in reach]])

hasReachCells(c) == \E i \in Idx : c[i].isReach /\ ~c[i].isActive

\* a wouldCompleteLine that lets every cell through
wouldCompleteLineNever(c, targetIndex) == FALSE

wouldCompleteLine(c, targetIndex) ==
  \E l \in CellLines[targetIndex] : LineActiveCount(c, l) = 4

\* a resetLineStatus that does not spare the free cell
resetLineStatusWithFree(c) ==
  Array([i \in Idx |->
     [c[i] EXCEPT !.isActive = IF c[i].isLine THEN FALSE ELSE c[i].isActive,
                  !.isLine = FALSE]])

\* a resetLineStatus that deactivates the line cells and leaves their marks
resetLineStatusKeepingMarks(c) ==
  Array([i \in Idx |->
     [c[i] EXCEPT !.isActive = IF c[i].isLine /\ ~c[i].isFree THEN FALSE ELSE c[i].isActive]])

resetLineStatus(c) ==
  Array([i \in Idx |->
     [c[i] EXCEPT !.isActive = IF c[i].isLine /\ ~c[i].isFree THEN FALSE ELSE c[i].isActive,
                  !.isLine = FALSE]])

\* the loop of ensureReachBeforeDraw
RECURSIVE EnsureReachLoop(_, _, _)
EnsureReachLoop(c, attempts, k) ==
  IF ~(~hasReachCells(c) /\ attempts < CARD_SIZE) THEN c
  ELSE LET candidates ==
             SelectSeq(Iota(CARD_SIZE),
                       LAMBDA idx : ~c[idx].isActive /\ ~wouldCompleteLine(c, idx))
       IN IF Len(candidates) = 0 THEN c
          ELSE LET pick == candidates[RandIndex(k, Len(candidates)) + 1]
               IN EnsureReachLoop(updateReachStatus([c EXCEPT ![pick].isActive = TRUE]),
                                  attempts + 1, k)

\* an ensureReachBeforeDraw that refreshes the marks and activates nothing
ensureReachSkipped(c, k) == updateReachStatus(c)

ensureReachBeforeDraw(c, k) ==
  LET c0 == updateReachStatus(c)
  IN IF hasReachCells(c0) THEN c0 ELSE EnsureReachLoop(c0, 0, k)

\* a checkLines that takes a line of four active cells for a complete one
checkLinesFourActive(c) ==
  LET complete == {l \in LineIds : LineActiveCount(c, l) >= 4}
      marked == UNION {LineCells[l] : l \in complete}
      numbers == SelectSeq(List([j \in 1..CARD_SIZE |-> j]),
                           LAMBDA n : \E i \in marked : c[i].number = n)
  IN [card |-> Array([i \in Idx |-> [c[i] EXCEPT !.isLine = c[i].isLine \/ i \in marked]]),
      linesCompleted |-> Cardinality(complete),
      lineNumbers |-> numbers]

\* checkLines: the card with the marks set, the count and the sorted numbers
checkLines(c) ==
  LET complete == {l \in LineIds : \A i \in LineCells[l] : c[i].isActive}
      marked == UNION {LineCells[l] : l \in complete}
      numbers == SelectSeq(List([j \in 1..CARD_SIZE |-> j]),
                           LAMBDA n : \E i \in marked : c[i].number = n)
  IN [card |-> Array([i \in Idx |-> [c[i] EXCEPT !.isLine = c[i].isLine \/ i \in marked]]),
      linesCompleted |-> Cardinality(complete),
      lineNumbers |-> numbers]

\* a getScore that scores a line a point
getScoreOfLines(linesCompleted) == linesCompleted

getScore(linesCompleted) ==
  IF linesCompleted = 0 THEN 0
  ELSE IF linesCompleted = 1 THEN 1
  ELSE IF linesCompleted = 2 THEN 3
  ELSE IF linesCompleted = 3 THEN 10
  ELSE IF linesCompleted = 4 THEN 50
  ELSE 200

\* ------------------------------------------------- board randomization

targetActiveCount == 13
maxAttempts == 12

Min(a, b) == IF a < b THEN a ELSE b
Max(a, b) == IF a > b THEN a ELSE b

resetBoard(c) ==
  Array([i \in Idx |->
     [c[i] EXCEPT !.isActive = c[i].isFree, !.isLine = FALSE, !.isReach = FALSE]])

\* a fill loop that counts a skipped cell as an activated one
RECURSIVE FillLoopCountingSkipped(_, _, _, _, _)
FillLoopCountingSkipped(c, items, pos, activated, activateCount) ==
  IF pos > Len(items) \/ activated >= activateCount THEN c
  ELSE IF wouldCompleteLine(c, items[pos])
       THEN FillLoopCountingSkipped(c, items, pos + 1, activated + 1, activateCount)
       ELSE FillLoopCountingSkipped([c EXCEPT ![items[pos]].isActive = TRUE], items, pos + 1,
                                    activated + 1, activateCount)

\* the loop of fillRandomly over the shuffled indices
RECURSIVE FillLoop(_, _, _, _, _)
FillLoop(c, items, pos, activated, activateCount) ==
  IF pos > Len(items) \/ activated >= activateCount THEN c
  ELSE IF wouldCompleteLine(c, items[pos])
       THEN FillLoop(c, items, pos + 1, activated, activateCount)
       ELSE FillLoop([c EXCEPT ![items[pos]].isActive = TRUE], items, pos + 1,
                     activated + 1, activateCount)

fillRandomly(c, k) ==
  LET pickableIndices == shuffle(SelectSeq(Iota(CARD_SIZE), LAMBDA idx : ~c[idx].isFree), k)
      activateCount == Max(0, Min(targetActiveCount - 1, Len(pickableIndices)))
  IN FillLoop(c, pickableIndices, 1, 0, activateCount)

\* the cells of line l that are active (resp. inactive), in line order
LineActive(c, l) == SelectSeq(ALL_LINES[l], LAMBDA idx : c[idx].isActive)
LineInactive(c, l) == SelectSeq(ALL_LINES[l], LAMBDA idx : ~c[idx].isActive)

\* the cells at the first n positions of a list, as a set
FirstN(items, n) == {items[j] : j \in 1..Min(n, Len(items))}

\* the loop of trySwap over the shuffled candidates
RECURSIVE TrySwapLoop(_, _, _, _, _, _)
TrySwapLoop(c, candidates, order, pos, activationCount, k) ==
  IF pos > Len(order) THEN [ok |-> FALSE, card |-> c]
  ELSE LET l == candidates[order[pos] + 1]
           outsideActives ==
             SelectSeq(Iota(CARD_SIZE),
                       LAMBDA idx : c[idx].isActive /\ ~c[idx].isFree /\ ~LineIncludes(l, idx))
       IN IF Len(outsideActives) < activationCount
          THEN TrySwapLoop(c, candidates, order, pos + 1, activationCount, k)
          ELSE LET on == FirstN(shuffle(LineInactive(c, l), k), activationCount)
                   off == FirstN(shuffle(outsideActives, k), activationCount)
               IN [ok |-> TRUE,
                   card |-> Array([i \in Idx |->
                               [c[i] EXCEPT !.isActive =
                                  IF i \in off THEN FALSE
                                  ELSE IF i \in on THEN TRUE ELSE c[i].isActive]])]

trySwap(c, activeCount, activationCount, k) ==
  LET candidates ==
        SelectSeq(List([l \in LineIds |-> l]),
                  LAMBDA l : Len(LineActive(c, l)) = activeCount
                             /\ Len(LineInactive(c, l)) >= activationCount)
  IN TrySwapLoop(c, candidates, shuffle(Iota(Len(candidates)), k), 1, activationCount, k)

\* a forced swap that activates two cells of a line with three active ones
tryForceReachFillingLine(c, k) == trySwap(c, 3, 2, k)

tryForceReach(c, k) ==
  LET first == trySwap(c, 3, 1, k)
  IN IF first.ok THEN first ELSE trySwap(c, 2, 2, k)

\* the attempts of randomizeBoardActiveState, then the forced swap
RECURSIVE RandomizeLoop(_, _, _)
RandomizeLoop(c, attempt, k) ==
  IF attempt < maxAttempts
  THEN LET filled == updateReachStatus(fillRandomly(resetBoard(c), k))
       IN IF hasReachCells(filled) THEN filled ELSE RandomizeLoop(filled, attempt + 1, k)
  ELSE LET forced == tryForceReach(c, k)
       IN IF forced.ok THEN updateReachStatus(forced.card) ELSE c

randomizeBoardActiveState(c, k) == RandomizeLoop(c, 0, k)

\* ---------------------------------------------------------- bonus handlers

\* pickRandom: the position picked in a list of len > 0 items
pickRandom(len, k) == RandIndex(k, len) + 1

\* items without the one at position j
RemoveAt(items, j) ==
  List([p \in 1..(Len(items) - 1) |-> IF p < j THEN items[p] ELSE items[p + 1]])

\* bonus.ts shuffle: sort() under a random comparator leaves some permutation
\* of the items; it is built here by picking the next item among those left
RECURSIVE bonusShuffle(_, _)
bonusShuffle(items, k) ==
  IF Len(items) = 0 THEN << >>
  ELSE LET j == RandIndex(k, Len(items)) + 1
       IN << items[j] >> \o bonusShuffle(RemoveAt(items, j), k)

\* getBaseIndex: -1 stands for null, baseNumber 0 for a missing one
\* a getBaseIndex that checks only for a missing number
getBaseIndexUnchecked(baseNumber) ==
  IF baseNumber = 0 THEN -1 ELSE baseNumber - 1

getBaseIndex(baseNumber) ==
  IF baseNumber = 0 THEN -1
  ELSE LET index == baseNumber - 1
       IN IF index < 0 \/ index >= GRID_SIZE * GRID_SIZE THEN -1 ELSE index

getRow(index) == index % GRID_SIZE
getCol(index) == index \div GRID_SIZE

\* an activation loop that also lists the numbers of the cells it found active
RECURSIVE ActivateTargetsListingAll(_, _, _, _)
ActivateTargetsListingAll(c, targets, pos, activatedNumbers) ==
  IF pos > Len(targets) THEN [card |-> c, activated |-> activatedNumbers]
  ELSE LET index == targets[pos]
       IN IF index \notin DOMAIN c
          THEN ActivateTargetsListingAll(c, targets, pos + 1, activatedNumbers)
          ELSE ActivateTargetsListingAll([c EXCEPT ![index].isActive = TRUE], targets, pos + 1,
                                         Append(activatedNumbers, c[index].number))

\* activateCell over a list of target indices, in order: the card and the
\* numbers of the cells it turned active (cells[index] undefined: skipped)
RECURSIVE ActivateTargets(_, _, _, _)
ActivateTargets(c, targets, pos, activatedNumbers) ==
  IF pos > Len(targets) THEN [card |-> c, activated |-> activatedNumbers]
  ELSE LET index == targets[pos]
       IN IF index \notin DOMAIN c \/ c[index].isActive
          THEN ActivateTargets(c, targets, pos + 1, activatedNumbers)
          ELSE ActivateTargets([c EXCEPT ![index].isActive = TRUE], targets, pos + 1,
                               Append(activatedNumbers, c[index].number))

\* targets.push(x) when cond holds
PushIf(cond, x) == IF cond THEN << x >> ELSE << >>

\* a random-one handler that picks among all the cells
UnlockRandomOneTargetsOfAll(c, k) == << pickRandom(CARD_SIZE, k) - 1 >>

UnlockRandomOneTargets(c, k) ==
  LET inactiveCells == SelectSeq(Iota(CARD_SIZE), LAMBDA idx : ~c[idx].isActive /\ ~c[idx].isFree)
  IN IF Len(inactiveCells) = 0 THEN << >>
     ELSE << inactiveCells[pickRandom(Len(inactiveCells), k)] >>

RandomThreeWithMissTargets(c, k) ==
  SubSeq(bonusShuffle(Iota(CARD_SIZE), k), 1, Min(3, CARD_SIZE))

\* a vertical target list without the checks at the first and last row
VerticalTargetsUnguarded(baseIndex) == << baseIndex - 1, baseIndex + 1 >>

VerticalTargets(baseIndex) ==
  PushIf(getRow(baseIndex) > 0, baseIndex - 1)
  \o PushIf(getRow(baseIndex) < GRID_SIZE - 1, baseIndex + 1)

HorizontalTargets(baseIndex) ==
  PushIf(getCol(baseIndex) > 0, baseIndex - GRID_SIZE)
  \o PushIf(getCol(baseIndex) < GRID_SIZE - 1, baseIndex + GRID_SIZE)

CrossTargets(baseIndex) == VerticalTargets(baseIndex) \o HorizontalTargets(baseIndex)

XDiagonalTargets(baseIndex) ==
  LET row == getRow(baseIndex)
      col == getCol(baseIndex)
  IN PushIf(row > 0 /\ col > 0, baseIndex - GRID_SIZE - 1)
     \o PushIf(row < GRID_SIZE - 1 /\ col > 0, baseIndex - GRID_SIZE + 1)
     \o PushIf(row > 0 /\ col < GRID_SIZE - 1, baseIndex + GRID_SIZE - 1)
     \o PushIf(row < GRID_SIZE - 1 /\ col < GRID_SIZE - 1, baseIndex + GRID_SIZE + 1)

\* ActivateBoxBonus: the eight offsets around the base index, row by row
BoxTargets(baseIndex) ==
  LET offsets == << -1, 0, 1 >>
      at(n) == baseIndex + offsets[((n - 1) \div 3) + 1] * GRID_SIZE + offsets[((n - 1) % 3) + 1]
  IN SelectSeq(List([n \in 1..9 |-> at(n)]), LAMBDA index : index # baseIndex)

\* a column-line target list that walks the base cell's row
ColumnLineTargetsAlongRow(baseIndex) ==
  List([j \in 1..GRID_SIZE |-> (j - 1) * GRID_SIZE + getRow(baseIndex)])

\* a column-line target list that starts at the base cell
ColumnLineTargetsFromBase(baseIndex) ==
  SelectSeq(List([j \in 1..GRID_SIZE |-> getCol(baseIndex) * GRID_SIZE + (j - 1)]),
            LAMBDA index : index >= baseIndex)

ColumnLineTargets(baseIndex) ==
  List([j \in 1..GRID_SIZE |-> getCol(baseIndex) * GRID_SIZE + (j - 1)])

\* a row-line target list that walks the base cell's column
RowLineTargetsAlongColumn(baseIndex) ==
  List([j \in 1..GRID_SIZE |-> getCol(baseIndex) * GRID_SIZE + (j - 1)])

RowLineTargets(baseIndex) ==
  List([j \in 1..GRID_SIZE |-> (j - 1) * GRID_SIZE + getRow(baseIndex)])

\* the kinds whose execute() reads Math.random()
RandomKinds == {"UNLOCK_RANDOM_ONE", "RANDOM_THREE_WITH_MISS"}

\* the target list of a handler
Targets(type, c, baseNumber, k) ==
  IF type = "UNLOCK_RANDOM_ONE" THEN UnlockRandomOneTargets(c, k)
  ELSE IF type = "RANDOM_THREE_WITH_MISS" THEN RandomThreeWithMissTargets(c, k)
  ELSE LET baseIndex == getBaseIndex(baseNumber)
       IN IF baseIndex = -1 THEN << >>
          ELSE IF type = "ACTIVATE_VERTICAL" THEN VerticalTargets(baseIndex)
          ELSE IF type = "ACTIVATE_HORIZONTAL" THEN HorizontalTargets(baseIndex)
          ELSE IF type = "ACTIVATE_CROSS" THEN CrossTargets(baseIndex)
          ELSE IF type = "ACTIVATE_X_DIAGONAL" THEN XDiagonalTargets(baseIndex)
          ELSE IF type = "ACTIVATE_COLUMN_LINE" THEN ColumnLineTargets(baseIndex)
          ELSE IF type = "ACTIVATE_BOX" THEN BoxTargets(baseIndex)
          ELSE RowLineTargets(baseIndex)

\* an execute that reports the cells and leaves the card as it was
executeOnCopy(type, c, baseNumber, k) ==
  [card |-> c,
   activated |-> ActivateTargets(c, Targets(type, c, baseNumber, k), 1, << >>).activated]

\* handler.execute(cells, {baseNumber})
execute(type, c, baseNumber, k) ==
  ActivateTargets(c, Targets(type, c, baseNumber, k), 1, << >>)

\* -------------------------------------------------------------- statistics

\* a Map: a function on its keys
EmptyMap == [x \in {} |-> 0]
\* a lookup that takes every key for absent
MapGetAbsent(m, key) == 0
MapGetOrZero(m, key) == IF key \in DOMAIN m THEN m[key] ELSE 0
\* a set that drops the other keys
MapSetAlone(m, key, v) == (key :> v)
MapSet(m, key, v) == (key :> v) @@ m

createEmptyStats ==
  [totalDraws |-> 0, hitCount |-> 0, winCount |-> 0, totalLines |-> 0,
   totalScore |-> 0, linesDistribution |-> EmptyMap, totalActiveCount |-> 0,
   bonusTypeStats |-> EmptyMap]

\* a getOrCreateBonusStats that starts every kind afresh
getOrCreateBonusStatsAfresh(st, type) ==
  [appliedCount |-> 0, totalActivated |-> 0, totalLines |-> 0, totalScore |-> 0,
   linesDistribution |-> EmptyMap]

getOrCreateBonusStats(st, type) ==
  IF type \in DOMAIN st.bonusTypeStats THEN st.bonusTypeStats[type]
  ELSE [appliedCount |-> 0, totalActivated |-> 0, totalLines |-> 0, totalScore |-> 0,
        linesDistribution |-> EmptyMap]

\* StatisticsManager.record
record(st, draw) ==
  LET base ==
        [st EXCEPT !.totalDraws = @ + 1,
                   !.hitCount = IF draw.isHit THEN @ + 1 ELSE @,
                   !.winCount = IF draw.isWin THEN @ + 1 ELSE @,
                   !.totalLines = @ + draw.linesCompleted,
                   !.totalScore = @ + draw.score,
                   !.totalActiveCount = @ + draw.activeCount,
                   !.linesDistribution =
                      MapSet(@, draw.linesCompleted, MapGetOrZero(@, draw.linesCompleted) + 1)]
      bonusStats == getOrCreateBonusStats(st, draw.bonusType)
  IN IF draw.bonusApplied /\ draw.bonusType # "undefined"
     THEN [base EXCEPT !.bonusTypeStats =
             MapSet(@, draw.bonusType,
                    [appliedCount |-> bonusStats.appliedCount + 1,
                     totalActivated |-> bonusStats.totalActivated + draw.bonusActivatedCount,
                     totalLines |-> bonusStats.totalLines + draw.linesCompleted,
                     totalScore |-> bonusStats.totalScore + draw.score,
                     linesDistribution |->
                       MapSet(bonusStats.linesDistribution, draw.linesCompleted,
                              MapGetOrZero(bonusStats.linesDistribution, draw.linesCompleted) + 1)])]
     ELSE base

\* getLinesDistribution: the (key, count) pairs, keys ascending
RECURSIVE SortedKeys(_)
SortedKeys(keys) ==
  IF keys = {} THEN << >>
  ELSE LET least == CHOOSE x \in keys : \A y \in keys : x <= y
       IN << least >> \o SortedKeys(keys \ {least})

getLinesDistribution(st) ==
  LET keys == SortedKeys(DOMAIN st.linesDistribution)
  IN List([j \in 1..Len(keys) |-> << keys[j], st.linesDistribution[keys[j]] >>])

\* a getTotalDraws that reports the draws that hit
getTotalDrawsOfHits(st) == st.hitCount
getTotalDraws(st) == st.totalDraws

\* ------------------------------------------------------------------- state

VARIABLES
  card,                    \* BingoGame.card
  lastResult,              \* << >> for null, << result >> otherwise
  pendingBonus,
  pendingBonusType,        \* "null" or a kind
  alwaysBonusMode,
  alwaysBonusType,         \* "null" or a kind
  enabledBonusTypes,
  randomizeBoardEachDraw,
  stats,                   \* StatisticsManager.stats
  startCard,               \* the card the last draw began with
  startPendingType,        \* the pendingBonusType the last draw began with
  resetCard,               \* the card of the last draw after its line reset
  sampleCard,              \* the card of the last draw when its number was sampled
  modeChanged,             \* the always-bonus mode changed since the last draw
  drawCalls,               \* draw() invocations since construction or reset()
  returned,                \* << >>, or the count and the list of the drawMultiple call just made
  setterCalls,             \* configuration setter calls made so far
  resetsInARow,            \* reset() calls made since the last other call
  executed,                \* << >>, or the handler.execute call just made from outside draw()
  snapshot,                \* << >>, or the array a caller holds from getCard()
  recorded,                \* << >>, or the record call just made on the statistics manager
  loopPc,                  \* where a draw() run step by step stands
  attempts,                \* the iterations its loop has made
  swaps                    \* the forced swaps it has made

vars ==
  << card, lastResult, pendingBonus, pendingBonusType, alwaysBonusMode, alwaysBonusType,
     enabledBonusTypes, randomizeBoardEachDraw, stats, startCard, startPendingType,
     resetCard, sampleCard, modeChanged,
     drawCalls, returned, setterCalls, resetsInARow, executed, snapshot, recorded,
     loopPc, attempts, swaps >>

\* what only the step-by-step draw and the direct record call change
apart == << recorded, loopPc, attempts, swaps >>

config == << alwaysBonusMode, alwaysBonusType, enabledBonusTypes, randomizeBoardEachDraw >>

\* the part of the engine a draw changes
Engine ==
  [card |-> card, lastResult |-> lastResult, pendingBonus |-> pendingBonus,
   pendingBonusType |-> pendingBonusType, stats |-> stats,
   startCard |-> startCard, startPendingType |-> startPendingType,
   resetCard |-> resetCard, sampleCard |-> sampleCard]

\* -------------------------------------------------------------------- draw

isBonusTriggerNumber(number) == number = FREE_CELL_NUMBER

\* getEnabledHandlers: the registered handlers whose kind is enabled
getEnabledHandlers == SelectSeq(RegistryAll, LAMBDA t : t \in enabledBonusTypes)

\* a getRandomHandler that picks among all registered handlers
getRandomHandlerOfAll(k) == RegistryAll[RandIndex(k, Len(RegistryAll)) + 1]

\* getRandomHandler, k the random value of the pick
getRandomHandler(k) ==
  IF Len(getEnabledHandlers) > 0
  THEN getEnabledHandlers[RandIndex(k, Len(getEnabledHandlers)) + 1]
  ELSE "undefined"

\* the pre-draw phase: the card after the line reset and the card the number
\* is sampled on
PreDraw(c, k) ==
  IF randomizeBoardEachDraw
  THEN LET r == randomizeBoardActiveState(c, k) IN [reset |-> r, sample |-> r]
  ELSE LET r == resetLineStatus(c) IN [reset |-> r, sample |-> ensureReachBeforeDraw(r, k)]

\* a lookup that takes the drawn number for the index
FindCellAtNumber(c, number) == IF number \in Idx THEN number ELSE -1

\* this.card.find((c) => c.number === drawnNumber): its index, -1 when none
FindCell(c, number) ==
  IF \E i \in Idx : c[i].number = number
  THEN CHOOSE i \in Idx : c[i].number = number /\ \A j \in Idx : c[j].number = number => i <= j
  ELSE -1

\* a PendingHandler that does not ask whether the kind is enabled
PendingHandlerOfAnyKind(e) ==
  IF e.pendingBonusType # "null" THEN RegistryGet(e.pendingBonusType) ELSE "undefined"

\* the pending kind's handler when it is registered and enabled
PendingHandler(e) ==
  LET pendingHandler ==
        IF e.pendingBonusType # "null" THEN RegistryGet(e.pendingBonusType) ELSE "undefined"
  IN IF pendingHandler # "undefined" /\ pendingHandler \in enabledBonusTypes
     THEN pendingHandler ELSE "undefined"

\* an AppliedHandler that takes mode 'disabled' for mode 'random'
AppliedHandlerRandomWhenDisabled(e, h) ==
  IF alwaysBonusMode = "fixed"
  THEN IF alwaysBonusType # "null" THEN RegistryGet(alwaysBonusType) ELSE "undefined"
  ELSE IF alwaysBonusMode \in {"random", "disabled"} THEN getRandomHandler(h)
  ELSE IF e.pendingBonus
       THEN IF PendingHandler(e) # "undefined" THEN PendingHandler(e) ELSE getRandomHandler(h)
       ELSE "undefined"

\* an AppliedHandler whose fixed kind has to be in the enabled set
AppliedHandlerOfEnabledKinds(e, h) ==
  IF alwaysBonusMode = "fixed"
  THEN IF alwaysBonusType # "null" /\ alwaysBonusType \in enabledBonusTypes
       THEN RegistryGet(alwaysBonusType) ELSE "undefined"
  ELSE IF alwaysBonusMode = "random" THEN getRandomHandler(h)
  ELSE IF alwaysBonusMode # "disabled" /\ e.pendingBonus
       THEN IF PendingHandler(e) # "undefined" THEN PendingHandler(e) ELSE getRandomHandler(h)
       ELSE "undefined"

\* an AppliedHandler that picks a handler in mode 'none' whether or not one is pending
AppliedHandlerWithoutPending(e, h) ==
  IF alwaysBonusMode = "fixed"
  THEN IF alwaysBonusType # "null" THEN RegistryGet(alwaysBonusType) ELSE "undefined"
  ELSE IF alwaysBonusMode # "disabled" THEN getRandomHandler(h)
  ELSE "undefined"

\* the handler the draw applies (lines 155-197), h the random value of a pick
AppliedHandler(e, h) ==
  IF alwaysBonusMode = "fixed"
  THEN IF alwaysBonusType # "null" THEN RegistryGet(alwaysBonusType) ELSE "undefined"
  ELSE IF alwaysBonusMode = "random" THEN getRandomHandler(h)
  ELSE IF alwaysBonusMode # "disabled" /\ e.pendingBonus
       THEN IF PendingHandler(e) # "undefined" THEN PendingHandler(e) ELSE getRandomHandler(h)
       ELSE "undefined"

\* a queuing test that does not look at the always-bonus mode
QueueBranchInAnyMode(drawnNumber) == isBonusTriggerNumber(drawnNumber)

\* the test of the queuing branch of draw()
QueueBranch(drawnNumber) ==
  /\ alwaysBonusMode # "disabled"
  /\ alwaysBonusMode # "random"
  /\ alwaysBonusMode # "fixed"
  /\ isBonusTriggerNumber(drawnNumber)

\* the draw reads Math.random() to queue a kind / to pick the kind it applies
QueuePicks(drawnNumber) ==
  IF alwaysBonusMode = "none" /\ isBonusTriggerNumber(drawnNumber) THEN Rand ELSE {0}

ApplyPicks(e) ==
  IF alwaysBonusMode = "random"
     \/ (alwaysBonusMode = "none" /\ e.pendingBonus /\ PendingHandler(e) = "undefined")
  THEN Rand ELSE {0}

BonusPicks(e, ha) == IF AppliedHandler(e, ha) \in RandomKinds THEN Rand ELSE {0}

\* a count that leaves out the cells of completed lines
countActiveOffLines(c) == Cardinality({i \in Idx : c[i].isActive /\ ~c[i].isLine})

\* this.card.filter((c) => c.isActive).length
countActive(c) == Cardinality({i \in Idx : c[i].isActive})

\* a hit test that looks at the drawn number only
isHitByDrawnNumber(isDrawnHit, bonusNumbers) == isDrawnHit

\* isDrawnHit || bonusNumbers.length > 0
isHit(isDrawnHit, bonusNumbers) == isDrawnHit \/ Len(bonusNumbers) > 0

\* draw() from the sampling of the number on: pre the outcome of the pre-draw
\* phase, hq and ha the random values of the handler picks, kb that of the bonus
\* a pending branch that clears the flag only when it found a handler
PendingConsumedWhenResolved(e) ==
  /\ alwaysBonusMode \notin {"fixed", "random", "disabled"}
  /\ e.pendingBonus
  /\ AppliedHandler(e, 0) # "undefined"

\* the branch else if (!isAlwaysDisabled && this.pendingBonus) is taken: it
\* ends with this.pendingBonus = false; this.pendingBonusType = null
PendingConsumed(e) ==
  /\ alwaysBonusMode \notin {"fixed", "random", "disabled"}
  /\ e.pendingBonus

DrawStep(e, pre, drawnNumber, hq, ha, kb) ==
  LET isAlwaysDisabled == alwaysBonusMode = "disabled"
      isAlwaysRandom == alwaysBonusMode = "random"
      isAlwaysFixed == alwaysBonusMode = "fixed"
      queueBranch == QueueBranch(drawnNumber)
      queuedHandler == IF queueBranch THEN getRandomHandler(hq) ELSE "undefined"
      bonusQueued == queuedHandler # "undefined"
      cell == FindCell(pre.sample, drawnNumber)
      isDrawnHit == ~queueBranch /\ ~isBonusTriggerNumber(drawnNumber)
                    /\ cell # -1 /\ ~pre.sample[cell].isActive
      c1 == IF isDrawnHit THEN [pre.sample EXCEPT ![cell].isActive = TRUE] ELSE pre.sample
      handler == AppliedHandler(e, ha)
      bonusApplied == handler # "undefined"
      out == IF bonusApplied THEN execute(handler, c1, drawnNumber, kb)
             ELSE [card |-> c1, activated |-> << >>]
      bonusNumbers == out.activated
      activatedNumbers == (IF isDrawnHit THEN << drawnNumber >> ELSE << >>) \o bonusNumbers
      consumed == PendingConsumed(e)
      lines == checkLines(out.card)
      score == getScore(lines.linesCompleted)
      activeCount == countActive(lines.card)
      result ==
        [drawnNumber |-> drawnNumber, isDrawnHit |-> isDrawnHit,
         bonusNumbers |-> bonusNumbers, activatedNumbers |-> activatedNumbers,
         bonusQueued |-> bonusQueued, bonusApplied |-> bonusApplied,
         bonusType |-> handler, bonusQueuedType |-> queuedHandler,
         linesCompleted |-> lines.linesCompleted, lineNumbers |-> lines.lineNumbers,
         score |-> score, activeCount |-> activeCount]
      drawStats ==
        [isHit |-> isHit(isDrawnHit, bonusNumbers),
         isWin |-> lines.linesCompleted > 0,
         bonusApplied |-> bonusApplied,
         bonusType |-> IF bonusApplied THEN handler ELSE "undefined",
         bonusActivatedCount |-> IF bonusApplied THEN Len(bonusNumbers) ELSE 0,
         linesCompleted |-> lines.linesCompleted,
         score |-> score,
         activeCount |-> activeCount]
  IN [card |-> updateReachStatus(lines.card),
      lastResult |-> << result >>,
      pendingBonus |-> IF bonusQueued THEN TRUE
                       ELSE IF consumed THEN FALSE ELSE e.pendingBonus,
      pendingBonusType |-> IF bonusQueued THEN queuedHandler
                           ELSE IF consumed THEN "null" ELSE e.pendingBonusType,
      stats |-> record(e.stats, drawStats),
      startCard |-> e.card,
      startPendingType |-> e.pendingBonusType,
      resetCard |-> pre.reset,
      sampleCard |-> pre.sample]

\* every engine one draw() can leave, over the values Math.random() takes
DrawOutcomes(e) ==
  UNION { LET pre == PreDraw(e.card, kp)
          IN UNION { UNION { UNION { { DrawStep(e, pre, n, hq, ha, kb) : kb \in BonusPicks(e, ha) }
                                     : ha \in ApplyPicks(e) }
                             : hq \in QueuePicks(n) }
                     : n \in 1..CARD_SIZE }
          : kp \in Rand }

\* ----------------------------------------------------------------- actions

\* the arguments the setters are called with
ModeInputs ==
  { << "none", "null" >>, << "disabled", "null" >>, << "random", "null" >>,
    << "fixed", "ACTIVATE_ROW_LINE" >>, << "fixed", "null" >>,
    << "fixed", UnregisteredType >> }

EnabledInputs == { BonusTypes, {}, {"RANDOM_THREE_WITH_MISS", "ACTIVATE_COLUMN_LINE"} }

Init ==
  /\ card = createInitialCard
  /\ lastResult = << >>
  /\ pendingBonus = FALSE
  /\ pendingBonusType = "null"
  /\ alwaysBonusMode = "none"
  /\ alwaysBonusType = "null"
  /\ enabledBonusTypes = BonusTypes
  /\ randomizeBoardEachDraw = FALSE
  /\ stats = createEmptyStats
  /\ startCard = createInitialCard
  /\ startPendingType = "null"
  /\ resetCard = createInitialCard
  /\ sampleCard = createInitialCard
  /\ modeChanged = FALSE
  /\ drawCalls = 0
  /\ returned = << >>
  /\ resetsInARow = 0
  /\ executed = << >>
  /\ setterCalls = 0
  /\ snapshot = << >>
  /\ recorded = << >>
  /\ loopPc = "idle"
  /\ attempts = 0
  /\ swaps = 0

\* getCard() returns [...this.card]: a new array holding the engine's own
\* cell objects.  What its holder reads at an index still shared is what the
\* engine's cell now holds
SeenThrough(snap, c) ==
  IF snap = << >> THEN snap
  ELSE << [snap[1] EXCEPT !.cells =
             Array([i \in Idx |-> IF i \in snap[1].shared THEN c[i] ELSE snap[1].cells[i]])] >>

\* reset() gives the engine a new array of new cell objects
Detached(snap) ==
  IF snap = << >> THEN snap ELSE << [snap[1] EXCEPT !.shared = {}] >>

\* the engine a draw leaves becomes the state
Install(e) ==
  /\ card' = e.card
  /\ lastResult' = e.lastResult
  /\ pendingBonus' = e.pendingBonus
  /\ pendingBonusType' = e.pendingBonusType
  /\ stats' = e.stats
  /\ startCard' = e.startCard
  /\ startPendingType' = e.startPendingType
  /\ resetCard' = e.resetCard
  /\ sampleCard' = e.sampleCard

Draw ==
  /\ drawCalls < MaxDraws
  /\ \E e \in DrawOutcomes(Engine) : Install(e)
  /\ drawCalls' = drawCalls + 1
  /\ modeChanged' = FALSE
  /\ returned' = << >>
  /\ resetsInARow' = 0
  /\ snapshot' = SeenThrough(snapshot, card')
  /\ UNCHANGED << config, setterCalls, executed, apart >>

\* a loop of drawMultiple that runs while i <= count
RECURSIVE DrawMultipleLoopInclusive(_, _, _, _)
DrawMultipleLoopInclusive(e, results, i, count) ==
  IF i > count THEN {[engine |-> e, results |-> results]}
  ELSE UNION { DrawMultipleLoopInclusive(o, Append(results, o.lastResult[1]), i + 1, count)
               : o \in DrawOutcomes(e) }

\* the loop of drawMultiple: every (engine, results) it can end with
RECURSIVE DrawMultipleLoop(_, _, _, _)
DrawMultipleLoop(e, results, i, count) ==
  IF i < count
  THEN UNION { DrawMultipleLoop(o, Append(results, o.lastResult[1]), i + 1, count)
               : o \in DrawOutcomes(e) }
  ELSE { [engine |-> e, results |-> results] }

drawMultiple(e, count) == DrawMultipleLoop(e, << >>, 0, count)

DrawMultiple ==
  \E count \in (-1)..MaxCount :
    /\ drawCalls + Max(count, 0) <= MaxDraws
    /\ \E out \in drawMultiple(Engine, count) :
         /\ Install(out.engine)
         /\ returned' = << [count |-> count, results |-> out.results] >>
         /\ drawCalls' = drawCalls + Len(out.results)
         /\ modeChanged' = (IF Len(out.results) > 0 THEN FALSE ELSE modeChanged)
    /\ resetsInARow' = 0
    /\ snapshot' = SeenThrough(snapshot, card')
    /\ UNCHANGED << config, setterCalls, executed, apart >>

\* a reset() that leaves the queued bonus in place
ResetKeepingPending ==
  /\ resetsInARow < MaxResets
  /\ card' = updateReachStatus(createInitialCard)
  /\ stats' = createEmptyStats
  /\ lastResult' = << >>
  /\ startCard' = card'
  /\ startPendingType' = "null"
  /\ resetCard' = card'
  /\ sampleCard' = card'
  /\ modeChanged' = FALSE
  /\ drawCalls' = 0
  /\ returned' = << >>
  /\ resetsInARow' = resetsInARow + 1
  /\ snapshot' = Detached(snapshot)
  /\ UNCHANGED << pendingBonus, pendingBonusType, config, setterCalls, executed, apart >>

Reset ==
  /\ resetsInARow < MaxResets
  /\ card' = updateReachStatus(createInitialCard)
  /\ stats' = createEmptyStats
  /\ lastResult' = << >>
  /\ pendingBonus' = FALSE
  /\ pendingBonusType' = "null"
  /\ startCard' = card'
  /\ startPendingType' = "null"
  /\ resetCard' = card'
  /\ sampleCard' = card'
  /\ modeChanged' = FALSE
  /\ drawCalls' = 0
  /\ returned' = << >>
  /\ resetsInARow' = resetsInARow + 1
  /\ snapshot' = Detached(snapshot)
  /\ UNCHANGED << config, setterCalls, executed, apart >>

SetAlwaysBonusSetting ==
  /\ setterCalls < MaxSetterCalls
  /\ \E in \in ModeInputs :
       /\ alwaysBonusMode' = in[1]
       /\ alwaysBonusType' = (IF in[1] = "fixed" THEN in[2] ELSE "null")
       /\ pendingBonus' = (IF in[1] # "none" THEN FALSE ELSE pendingBonus)
       /\ pendingBonusType' = (IF in[1] # "none" THEN "null" ELSE pendingBonusType)
       /\ modeChanged' = (modeChanged \/ in[1] # alwaysBonusMode)
  /\ setterCalls' = setterCalls + 1
  /\ UNCHANGED << card, lastResult, enabledBonusTypes, randomizeBoardEachDraw, stats,
                  startCard, startPendingType, resetCard, sampleCard, drawCalls >>
  /\ returned' = << >>
  /\ resetsInARow' = 0
  /\ UNCHANGED << executed, snapshot, apart >>

SetRandomizeBoardEachDraw ==
  /\ setterCalls < MaxSetterCalls
  /\ \E enabled \in BOOLEAN : randomizeBoardEachDraw' = enabled
  /\ setterCalls' = setterCalls + 1
  /\ UNCHANGED << card, lastResult, pendingBonus, pendingBonusType, alwaysBonusMode,
                  alwaysBonusType, enabledBonusTypes, stats, startCard, startPendingType,
                  resetCard, sampleCard, modeChanged, drawCalls >>
  /\ returned' = << >>
  /\ resetsInARow' = 0
  /\ UNCHANGED << executed, snapshot, apart >>

SetEnabledBonusTypes ==
  /\ setterCalls < MaxSetterCalls
  /\ \E types \in EnabledInputs : enabledBonusTypes' = types
  /\ setterCalls' = setterCalls + 1
  /\ UNCHANGED << card, lastResult, pendingBonus, pendingBonusType, alwaysBonusMode,
                  alwaysBonusType, randomizeBoardEachDraw, stats, startCard, startPendingType,
                  resetCard, sampleCard, modeChanged, drawCalls >>
  /\ returned' = << >>
  /\ resetsInARow' = 0
  /\ UNCHANGED << executed, snapshot, apart >>

Next ==
  \/ Draw
  \/ Reset
  \/ SetAlwaysBonusSetting
  \/ SetRandomizeBoardEachDraw
  \/ SetEnabledBonusTypes

Spec == Init /\ [][Next]_vars

\* the engine driven by single draws and by batches of draws
NextMultiple ==
  \/ Draw
  \/ DrawMultiple
  \/ Reset
  \/ SetRandomizeBoardEachDraw
  \/ SetEnabledBonusTypes

SpecMultiple == Init /\ [][NextMultiple]_vars

\* ------------------------------------------------- draw() step by step

\* thirteen-cell boards on which no line holds more than three active cells:
\* fifteen cells, three on every line, less two of them
ThreePerLine ==
  {i \in Idx : (2 * (i % GRID_SIZE) + (i \div GRID_SIZE)) % GRID_SIZE \in {0, 1, 2}}
SparseBoards ==
  { ThreePerLine \ {a, b} : << a, b >> \in { << 0, 1 >>, << 23, 24 >> } }

\* orders shuffle(pickableIndices) can leave that no single value of
\* Math.random() yields: the cells of a sparse board first
ShuffledOrders ==
  { SelectSeq(Iota(CARD_SIZE), LAMBDA idx : idx \in b /\ idx # FREE_CELL_NUMBER - 1)
      \o SelectSeq(Iota(CARD_SIZE), LAMBDA idx : idx \notin b)
    : b \in SparseBoards }

\* the boards resetBoard(); fillRandomly() can leave
FillOutcomes(c) ==
  { fillRandomly(resetBoard(c), k) : k \in Rand }
  \cup { FillLoop(resetBoard(c), order, 1, 0, Max(0, Min(targetActiveCount - 1, Len(order))))
         : order \in ShuffledOrders }

\* draw() is entered: the branch on randomizeBoardEachDraw, and in the else
\* branch resetLineStatus() and ensureReachBeforeDraw() up to its loop
BeginDraw ==
  /\ loopPc = "idle"
  /\ drawCalls < MaxSteppedDraws
  /\ startCard' = card
  /\ startPendingType' = pendingBonusType
  /\ attempts' = 0
  /\ swaps' = 0
  /\ IF randomizeBoardEachDraw
     THEN /\ card' = card
          /\ resetCard' = resetCard
          /\ loopPc' = "rebuild"
     ELSE /\ resetCard' = resetLineStatus(card)
          /\ card' = updateReachStatus(resetLineStatus(card))
          /\ loopPc' = IF hasReachCells(updateReachStatus(resetLineStatus(card)))
                       THEN "sampled" ELSE "reach"
  /\ snapshot' = SeenThrough(snapshot, card')
  /\ UNCHANGED << lastResult, pendingBonus, pendingBonusType, config, stats, sampleCard,
                  modeChanged, drawCalls, returned, setterCalls, resetsInARow, executed,
                  recorded >>

\* one test of the while condition of ensureReachBeforeDraw and, when it
\* holds and there is a candidate, one run of the loop body
ReachIteration ==
  /\ loopPc = "reach"
  /\ LET candidates ==
           SelectSeq(Iota(CARD_SIZE),
                     LAMBDA idx : ~card[idx].isActive /\ ~wouldCompleteLine(card, idx))
     IN IF ~hasReachCells(card) /\ attempts < CARD_SIZE /\ Len(candidates) > 0
        THEN /\ \E k \in Rand :
                  card' = updateReachStatus(
                            [card EXCEPT ![candidates[RandIndex(k, Len(candidates)) + 1]].isActive
                                           = TRUE])
             /\ attempts' = attempts + 1
             /\ loopPc' = "reach"
        ELSE /\ card' = card
             /\ attempts' = attempts
             /\ loopPc' = "sampled"
  /\ snapshot' = SeenThrough(snapshot, card')
  /\ UNCHANGED << lastResult, pendingBonus, pendingBonusType, config, stats, startCard,
                  startPendingType, resetCard, sampleCard, modeChanged, drawCalls, returned,
                  setterCalls, resetsInARow, executed, recorded, swaps >>

\* a rebuild attempt that is not counted
RebuildAttemptUncounted ==
  /\ loopPc = "rebuild"
  /\ attempts < maxAttempts
  /\ \E filled \in { updateReachStatus(f) : f \in FillOutcomes(card) } :
       /\ card' = filled
       /\ loopPc' = IF hasReachCells(filled) THEN "sampled" ELSE "rebuild"
  /\ attempts' = attempts
  /\ snapshot' = SeenThrough(snapshot, card')
  /\ UNCHANGED << lastResult, pendingBonus, pendingBonusType, config, stats, startCard,
                  startPendingType, resetCard, sampleCard, modeChanged, drawCalls, returned,
                  setterCalls, resetsInARow, executed, recorded, swaps >>

\* one attempt of the for loop of randomizeBoardActiveState
RebuildAttempt ==
  /\ loopPc = "rebuild"
  /\ attempts < maxAttempts
  /\ \E filled \in { updateReachStatus(f) : f \in FillOutcomes(card) } :
       /\ card' = filled
       /\ loopPc' = IF hasReachCells(filled) THEN "sampled" ELSE "rebuild"
  /\ attempts' = attempts + 1
  /\ snapshot' = SeenThrough(snapshot, card')
  /\ UNCHANGED << lastResult, pendingBonus, pendingBonusType, config, stats, startCard,
                  startPendingType, resetCard, sampleCard, modeChanged, drawCalls, returned,
                  setterCalls, resetsInARow, executed, recorded, swaps >>

\* the for loop is over without a reach: if (tryForceReach()) updateReachStatus()
ForcedSwap ==
  /\ loopPc = "rebuild"
  /\ attempts >= maxAttempts
  /\ \E forced \in { tryForceReach(card, k) : k \in Rand } :
       card' = IF forced.ok THEN updateReachStatus(forced.card) ELSE card
  /\ swaps' = swaps + 1
  /\ loopPc' = "sampled"
  /\ snapshot' = SeenThrough(snapshot, card')
  /\ UNCHANGED << lastResult, pendingBonus, pendingBonusType, config, stats, startCard,
                  startPendingType, resetCard, sampleCard, modeChanged, drawCalls, returned,
                  setterCalls, resetsInARow, executed, recorded, attempts >>

\* every engine the rest of draw() can leave, from the sampling on
FinishOutcomes ==
  LET e == [Engine EXCEPT !.card = startCard]
      pre == [reset |-> IF randomizeBoardEachDraw THEN card ELSE resetCard, sample |-> card]
  IN UNION { UNION { UNION { { DrawStep(e, pre, n, hq, ha, kb) : kb \in BonusPicks(e, ha) }
                             : ha \in ApplyPicks(e) }
                     : hq \in QueuePicks(n) }
             : n \in 1..CARD_SIZE }

\* the rest of draw(): the sampling, the bonus, the lines and the record
FinishDraw ==
  /\ loopPc = "sampled"
  /\ \E e \in FinishOutcomes : Install(e)
  /\ loopPc' = "idle"
  /\ drawCalls' = drawCalls + 1
  /\ modeChanged' = FALSE
  /\ returned' = << >>
  /\ resetsInARow' = 0
  /\ snapshot' = SeenThrough(snapshot, card')
  /\ UNCHANGED << config, setterCalls, executed, recorded, attempts, swaps >>

\* the setter is called between draws
ConfigureBetweenDraws ==
  /\ loopPc = "idle"
  /\ SetRandomizeBoardEachDraw

\* the steps of the loops of a draw() that was entered
RunLoops ==
  \/ ReachIteration
  \/ RebuildAttempt
  \/ ForcedSwap

NextSteps ==
  \/ ConfigureBetweenDraws
  \/ BeginDraw
  \/ RunLoops
  \/ FinishDraw

\* what a step of RunLoops does to the position and the count of the loop
LoopStep ==
  /\ loopPc \in {"reach", "rebuild"}
  /\ loopPc' \in {"reach", "rebuild", "sampled"}
  /\ attempts' \in 0..CARD_SIZE
  /\ << loopPc', attempts' >> # << loopPc, attempts >>

\* a loop that was entered runs on: the engine is single-threaded
SpecSteps == Init /\ [][NextSteps]_vars /\ WF_<< loopPc, attempts >>(LoopStep)

\* ------------------------------------------------- the array of getCard()

\* the indices at which a caller writes to the array it holds
WrittenIndices == {0, FREE_CELL_NUMBER - 1}

\* getCard(): return [...this.card].  One returned array is followed
GetCard ==
  /\ snapshot = << >>
  /\ snapshot' = << [taken |-> card, cells |-> card, shared |-> Idx, writes |-> 0] >>
  /\ returned' = << >>
  /\ resetsInARow' = 0
  /\ UNCHANGED << card, lastResult, pendingBonus, pendingBonusType, config, stats, startCard,
                  startPendingType, resetCard, sampleCard, modeChanged, drawCalls,
                  setterCalls, executed, apart >>

\* returned[i].isActive = !returned[i].isActive by the holder of the array:
\* the write lands in the cell object, which the engine holds too while the
\* index is shared
WriteReturnedCell ==
  /\ snapshot # << >>
  /\ snapshot[1].writes < MaxWrites
  /\ \E i \in WrittenIndices :
       LET value == ~snapshot[1].cells[i].isActive
       IN /\ snapshot' = << [snapshot[1] EXCEPT !.cells[i].isActive = value,
                                                 !.writes = @ + 1] >>
          /\ card' = IF i \in snapshot[1].shared
                     THEN [card EXCEPT ![i].isActive = value] ELSE card
  /\ returned' = << >>
  /\ resetsInARow' = 0
  /\ UNCHANGED << lastResult, pendingBonus, pendingBonusType, config, stats, startCard,
                  startPendingType, resetCard, sampleCard, modeChanged, drawCalls,
                  setterCalls, executed, apart >>

\* returned[i] = {...returned[i], isActive: !returned[i].isActive} by the
\* holder of the array: the write lands in the array, which is the holder's own
ReplaceReturnedElement ==
  /\ snapshot # << >>
  /\ snapshot[1].writes < MaxWrites
  /\ \E i \in WrittenIndices :
       snapshot' = << [snapshot[1] EXCEPT !.cells[i].isActive = ~@,
                                          !.shared = @ \ {i},
                                          !.writes = @ + 1] >>
  /\ returned' = << >>
  /\ resetsInARow' = 0
  /\ UNCHANGED << card, lastResult, pendingBonus, pendingBonusType, config, stats, startCard,
                  startPendingType, resetCard, sampleCard, modeChanged, drawCalls,
                  setterCalls, executed, apart >>

NextSnapshot ==
  \/ Draw
  \/ GetCard
  \/ WriteReturnedCell
  \/ ReplaceReturnedElement

SpecSnapshot == Init /\ [][NextSnapshot]_vars

\* ------------------------------------------- the statistics manager on its own

\* the DrawStatistics a record call is handed
StatInputs ==
  { [isHit |-> h, isWin |-> w, bonusApplied |-> b[1], bonusType |-> b[2],
     bonusActivatedCount |-> IF b[1] THEN 2 ELSE 0,
     linesCompleted |-> n, score |-> getScore(n), activeCount |-> 7 + n]
    : h \in BOOLEAN, w \in BOOLEAN, n \in {0, 2},
      b \in { << FALSE, "undefined" >>, << TRUE, "undefined" >>, << FALSE, "ACTIVATE_CROSS" >>,
              << TRUE, "ACTIVATE_CROSS" >>, << TRUE, "ACTIVATE_ROW_LINE" >> } }

\* statisticsManager.record(stat)
RecordCall ==
  /\ getTotalDraws(stats) < MaxRecords
  /\ \E stat \in StatInputs :
       /\ stats' = record(stats, stat)
       /\ recorded' = << [before |-> stats, stat |-> stat] >>
  /\ UNCHANGED << card, lastResult, pendingBonus, pendingBonusType, config, startCard,
                  startPendingType, resetCard, sampleCard, modeChanged, drawCalls, returned,
                  setterCalls, resetsInARow, executed, snapshot, loopPc, attempts, swaps >>

\* statisticsManager.reset()
StatisticsReset ==
  /\ recorded # << >>
  /\ stats' = createEmptyStats
  /\ recorded' = << >>
  /\ UNCHANGED << card, lastResult, pendingBonus, pendingBonusType, config, startCard,
                  startPendingType, resetCard, sampleCard, modeChanged, drawCalls, returned,
                  setterCalls, resetsInARow, executed, snapshot, loopPc, attempts, swaps >>

NextStatistics ==
  \/ RecordCall
  \/ StatisticsReset

SpecStatistics == Init /\ [][NextStatistics]_vars

\* ------------------------------------------------- the handlers on their own

\* the base numbers a context carries: 0 for a missing one, 1..25, and the
\* out-of-range -1 and 26
BaseNumbers == (-1)..(CARD_SIZE + 1)

\* the kinds with a handler class: the registered ones and the box
HandlerTypes == BonusTypes \cup {UnregisteredType}

\* the card the handlers are run on is that of a new engine or of an engine
\* after its first draws
PrepareCard ==
  /\ drawCalls < MaxPreparingDraws
  /\ executed = << >>
  /\ Draw

\* handler.execute(cells, {baseNumber}) on the cells of the card
ExecuteHandler ==
  /\ executed = << >>
  /\ \E type \in HandlerTypes, baseNumber \in BaseNumbers :
       \E k \in (IF type \in RandomKinds THEN Rand ELSE {0}) :
         \E out \in {execute(type, card, baseNumber, k)} :
           /\ card' = out.card
           /\ snapshot' = SeenThrough(snapshot, out.card)
           /\ executed' = << [type |-> type, baseNumber |-> baseNumber, cells |-> card,
                              activated |-> out.activated] >>
  /\ UNCHANGED << lastResult, pendingBonus, pendingBonusType, config, stats, startCard,
                  startPendingType, resetCard, sampleCard, modeChanged, drawCalls, returned,
                  setterCalls, resetsInARow, apart >>

NextBonus ==
  \/ SetRandomizeBoardEachDraw
  \/ PrepareCard
  \/ ExecuteHandler

SpecBonus == Init /\ [][NextBonus]_vars

\* ------------------------------------------- handlers run in a row on a card

\* the handler calls made so far
HandlerCalls == IF executed = << >> THEN 0 ELSE executed[1].calls

\* the record of the call handler.execute(cells, {baseNumber}) just made on
\* the cells of the card
Called(type, baseNumber, out) ==
  [type |-> type, baseNumber |-> baseNumber, cells |-> card, activated |-> out.activated,
   calls |-> HandlerCalls + 1]

\* the column-line handler from the first cell of a column
FillColumn ==
  /\ HandlerCalls < MaxHandlerCalls
  /\ \E col \in 0..(GRID_SIZE - 1) :
       \E out \in {execute("ACTIVATE_COLUMN_LINE", card, col * GRID_SIZE + 1, 0)} :
         /\ card' = out.card
         /\ snapshot' = SeenThrough(snapshot, out.card)
         /\ executed' = << Called("ACTIVATE_COLUMN_LINE", col * GRID_SIZE + 1, out) >>
  /\ UNCHANGED << lastResult, pendingBonus, pendingBonusType, config, stats, startCard,
                  startPendingType, resetCard, sampleCard, modeChanged, drawCalls, returned,
                  setterCalls, resetsInARow, apart >>

\* the random-one handler
UnlockOne ==
  /\ HandlerCalls < MaxHandlerCalls
  /\ \E k \in Rand :
       \E out \in {execute("UNLOCK_RANDOM_ONE", card, 0, k)} :
         /\ card' = out.card
         /\ snapshot' = SeenThrough(snapshot, out.card)
         /\ executed' = << Called("UNLOCK_RANDOM_ONE", 0, out) >>
  /\ UNCHANGED << lastResult, pendingBonus, pendingBonusType, config, stats, startCard,
                  startPendingType, resetCard, sampleCard, modeChanged, drawCalls, returned,
                  setterCalls, resetsInARow, apart >>

NextFill ==
  \/ FillColumn
  \/ UnlockOne

SpecFill == Init /\ [][NextFill]_vars

\* ------------------------------------------------------------ properties

\* a step that made exactly one draw() invocation
OneDraw == drawCalls' = drawCalls + 1

ActiveCells(c) == {i \in Idx : c[i].isActive}

\* C1: after any sequence of operations exactly one cell of the card is the
\* free cell, it carries the number 13 and it is active
C1_FreeCellInvariant ==
  /\ Cardinality({i \in Idx : card[i].isFree}) = 1
  /\ \A i \in Idx : card[i].isFree => card[i].number = FREE_CELL_NUMBER /\ card[i].isActive

\* the last draw began with the free cell on a completed line and reset that line
C1_Witness ==
  /\ drawCalls = 2
  /\ setterCalls = 0
  /\ \E i \in Idx : startCard[i].isFree /\ startCard[i].isLine
  /\ \E i \in Idx : startCard[i].isLine /\ ~resetCard[i].isActive

\* C2: in mode 'none' a draw reports bonusApplied exactly when the draw just
\* before it reported bonusQueued, with no reset() and no change of mode in
\* between, and some enabled kind has a registered handler; so the draw that
\* queues a bonus does not apply it
C2_AppliedIffQueuedBefore ==
  [][ (OneDraw /\ alwaysBonusMode = "none" /\ ~modeChanged)
        => (lastResult'[1].bonusApplied
              <=> /\ lastResult # << >>
                  /\ lastResult[1].bonusQueued
                  /\ \E t \in enabledBonusTypes : RegistryGet(t) # "undefined") ]_vars

\* the second draw applied the bonus the first one queued
C2_Witness ==
  /\ alwaysBonusMode = "none"
  /\ setterCalls = 0
  /\ drawCalls = 2
  /\ lastResult # << >>
  /\ lastResult[1].bonusApplied
  /\ ~lastResult[1].bonusQueued

\* C3: with randomization off, the cells of the lines a draw completed are
\* active and marked isLine when it returns, and the next draw, before it
\* forces a reach and samples, has deactivated every non-free isLine cell and
\* cleared isLine on all 25 cells
C3_LinesKeptUntilNextDraw ==
  /\ [](lastResult # << >> =>
          \A i \in Idx : (\E j \in 1..Len(lastResult[1].lineNumbers) :
                             lastResult[1].lineNumbers[j] = card[i].number)
                         => card[i].isActive /\ card[i].isLine)
  /\ [][ (OneDraw /\ ~randomizeBoardEachDraw)
           => \A i \in Idx :
                /\ ~resetCard'[i].isLine
                /\ ~sampleCard'[i].isLine
                /\ (card[i].isLine /\ ~card[i].isFree) => ~resetCard'[i].isActive
                /\ ~(card[i].isLine /\ ~card[i].isFree)
                     => resetCard'[i].isActive = card[i].isActive ]_vars

\* the last draw began with a completed line and deactivated its cells
C3_Witness ==
  /\ ~randomizeBoardEachDraw
  /\ setterCalls = 0
  /\ drawCalls = 2
  /\ \E i \in Idx : startCard[i].isLine /\ ~startCard[i].isFree /\ ~resetCard[i].isActive

\* C4: with randomization off, when the number is sampled at least one line
\* has exactly four active cells and one inactive cell
C4_ReachAtSampling ==
  [][ (OneDraw /\ ~randomizeBoardEachDraw)
        => \E l \in LineIds : /\ LineActiveCount(sampleCard', l) = 4
                              /\ LineInactiveCount(sampleCard', l) = 1 ]_vars

\* after a line reset left no reach, the draw activated cells before sampling
C4_Witness ==
  /\ ~randomizeBoardEachDraw
  /\ setterCalls = 0
  /\ drawCalls = 2
  /\ \E i \in Idx : startCard[i].isLine
  /\ ~hasReachCells(updateReachStatus(resetCard))
  /\ \E i \in Idx : sampleCard[i].isActive /\ ~resetCard[i].isActive

\* C5: after every draw a cell is marked isLine exactly when it lies on a
\* line whose five cells are all active
C5_LineMarksExact ==
  \A i \in Idx :
    card[i].isLine <=> \E l \in CellLines[i] : \A j \in LineCells[l] : card[j].isActive

\* a draw left marked cells and unmarked active cells side by side
C5_Witness ==
  /\ lastResult # << >>
  /\ lastResult[1].linesCompleted >= 1
  /\ \E i \in Idx : card[i].isLine
  /\ \E i \in Idx : card[i].isActive /\ ~card[i].isLine

\* C6: after every draw() and reset() a cell is marked isReach exactly when
\* it lies on a line with four active cells and one inactive cell
C6_ReachMarksExact ==
  \A i \in Idx :
    card[i].isReach <=> \E l \in CellLines[i] : /\ LineActiveCount(card, l) = 4
                                                /\ LineInactiveCount(card, l) = 1

\* a cell marked when the number was sampled has lost its mark, another has one
C6_Witness ==
  /\ lastResult # << >>
  /\ \E i \in Idx : sampleCard[i].isReach /\ ~card[i].isReach
  /\ \E i \in Idx : card[i].isReach

\* C7: the activeCount of a DrawResult is the number of active cells of the
\* card when draw() returns
C7_ActiveCountExact ==
  lastResult # << >> => lastResult[1].activeCount = Cardinality(ActiveCells(card))

\* a draw that completed a line returned, the line's cells counted
C7_Witness ==
  /\ lastResult # << >>
  /\ lastResult[1].linesCompleted >= 1
  /\ lastResult[1].activeCount >= 5
  /\ lastResult[1].activeCount = Cardinality(ActiveCells(card))

\* n calls of draw() in sequence from engine e: every engine they can leave
\* with the results in call order
RECURSIVE SequentialDraws(_, _)
SequentialDraws(e, n) ==
  IF n = 0 THEN { [engine |-> e, results |-> << >>] }
  ELSE UNION { { [engine |-> o, results |-> Append(p.results, o.lastResult[1])]
                 : o \in DrawOutcomes(p.engine) }
               : p \in SequentialDraws(e, n - 1) }

\* C8: drawMultiple(n) does what n calls of draw() in sequence do and returns
\* their n results in order; for n <= 0 it returns the empty list and changes
\* nothing
C8_DrawMultipleIsSequence ==
  /\ [](\A n \in (-1)..(MaxDraws - drawCalls) :
          drawMultiple(Engine, n) = SequentialDraws(Engine, Max(n, 0)))
  /\ [][ returned' # << >> =>
           LET n == returned'[1].count
               results == returned'[1].results
           IN /\ Len(results) = Max(n, 0)
              /\ drawCalls' = drawCalls + Max(n, 0)
              /\ n <= 0 => Engine' = Engine
              /\ n > 0 => lastResult' = << results[n] >> ]_vars

\* a drawMultiple(2) returned two results
C8_Witness ==
  /\ returned # << >>
  /\ returned[1].count = 2
  /\ Len(returned[1].results) = 2
  /\ lastResult = << returned[1].results[2] >>

RECURSIVE SumCounts(_, _)
SumCounts(pairs, pos) ==
  IF pos > Len(pairs) THEN 0 ELSE pairs[pos][2] + SumCounts(pairs, pos + 1)

\* C10: the counts of the lines distribution add up to the total of draws
C10_DistributionSumsToTotal ==
  SumCounts(getLinesDistribution(stats), 1) = getTotalDraws(stats)

\* two draws fell into one bucket of the distribution
C10_Witness ==
  /\ getTotalDraws(stats) = 2
  /\ \E j \in 1..Len(getLinesDistribution(stats)) : getLinesDistribution(stats)[j][2] = 2

\* the empty-state card: only cell 13 active, no marks
EmptyCard(c) ==
  \A i \in Idx :
    /\ c[i].number = i + 1
    /\ c[i].isFree = (i + 1 = FREE_CELL_NUMBER)
    /\ c[i].isActive = (i + 1 = FREE_CELL_NUMBER)
    /\ ~c[i].isLine
    /\ ~c[i].isReach

\* the statistics zeroed, the distributions and the per-kind aggregates empty
ZeroStats(st) ==
  /\ st.totalDraws = 0 /\ st.hitCount = 0 /\ st.winCount = 0
  /\ st.totalLines = 0 /\ st.totalScore = 0 /\ st.totalActiveCount = 0
  /\ DOMAIN st.linesDistribution = {}
  /\ DOMAIN st.bonusTypeStats = {}

AfterReset ==
  /\ EmptyCard(card)
  /\ ZeroStats(stats)
  /\ lastResult = << >>
  /\ ~pendingBonus
  /\ pendingBonusType = "null"

\* C11: reset() leaves the empty-state card, zeroed statistics with empty
\* distributions, no last result and no pending bonus, and a second reset()
\* right after it changes nothing
C11_ResetIdempotent ==
  /\ [][ resetsInARow' = resetsInARow + 1 => AfterReset' ]_vars
  /\ [][ (resetsInARow >= 1 /\ resetsInARow' = resetsInARow + 1)
           => UNCHANGED << card, stats, lastResult, pendingBonus, pendingBonusType, config >> ]_vars

\* reset() was called twice in a row
C11_Witness ==
  /\ resetsInARow = 2
  /\ AfterReset

\* the row of ALL_LINES through a cell
RowLineOf(i) == CHOOSE l \in RowLineIds : i \in LineCells[l]

SeqToSet(q) == {q[j] : j \in 1..Len(q)}

NoDuplicates(q) == \A j1, j2 \in 1..Len(q) : q[j1] = q[j2] => j1 = j2

\* a draw on a fresh engine in always-fixed mode with the row-line bonus
FreshRowLineDraw ==
  /\ OneDraw
  /\ drawCalls = 0
  /\ lastResult = << >>
  /\ alwaysBonusMode = "fixed"
  /\ alwaysBonusType = "ACTIVATE_ROW_LINE"

\* C12 as stated: the activated numbers are the five numbers of the drawn
\* number's row, each once
C12_AllFiveRowNumbers ==
  [][ FreshRowLineDraw =>
        LET r == lastResult'[1]
            row == LineCells[RowLineOf(r.drawnNumber - 1)]
        IN /\ SeqToSet(r.activatedNumbers) = {i + 1 : i \in row}
           /\ Len(r.activatedNumbers) = 5 ]_vars

\* C12 amended: the activated numbers are, each once, the numbers of the cells
\* of the drawn number's row that were inactive when the number was drawn,
\* and the five cells of the row are active after the draw
C12_InactiveRowNumbers ==
  [][ FreshRowLineDraw =>
        LET r == lastResult'[1]
            row == LineCells[RowLineOf(r.drawnNumber - 1)]
        IN /\ SeqToSet(r.activatedNumbers)
                = {sampleCard'[i].number : i \in {j \in row : ~sampleCard'[j].isActive}}
           /\ NoDuplicates(r.activatedNumbers)
           /\ \A i \in row : card'[i].isActive ]_vars

\* the first draw of an engine in that mode found a cell of the row active
C12_Witness ==
  /\ drawCalls = 1
  /\ EmptyCard(startCard)
  /\ alwaysBonusMode = "fixed"
  /\ alwaysBonusType = "ACTIVATE_ROW_LINE"
  /\ lastResult # << >>
  /\ lastResult[1].bonusApplied
  /\ \E i \in LineCells[RowLineOf(lastResult[1].drawnNumber - 1)] :
       sampleCard[i].isActive /\ ~sampleCard[i].isFree
  /\ Len(lastResult[1].activatedNumbers) < 5

\* C13: when a bonus was queued by drawing 13 and every kind is then disabled,
\* the following draw applies no bonus (bonusApplied false, no bonusType, no
\* bonusNumbers) and still completes and is recorded
C13_AllDisabledNoHandler ==
  [][ (/\ OneDraw
       /\ alwaysBonusMode = "none"
       /\ lastResult # << >>
       /\ lastResult[1].drawnNumber = FREE_CELL_NUMBER
       /\ lastResult[1].bonusQueued
       /\ pendingBonus
       /\ enabledBonusTypes = {})
      => /\ ~lastResult'[1].bonusApplied
         /\ lastResult'[1].bonusType = "undefined"
         /\ lastResult'[1].bonusNumbers = << >>
         /\ getTotalDraws(stats') = getTotalDraws(stats) + 1
         /\ stats'.bonusTypeStats = stats.bonusTypeStats ]_vars

\* a draw began with a bonus pending and no kind enabled
C13_Witness ==
  /\ alwaysBonusMode = "none"
  /\ enabledBonusTypes = {}
  /\ drawCalls = 2
  /\ startPendingType # "null"
  /\ lastResult # << >>
  /\ ~lastResult[1].bonusApplied
  /\ getTotalDraws(stats) = 2

C15_NoQueueInAlwaysModes ==
  [][ (OneDraw /\ alwaysBonusMode \in {"fixed", "random", "disabled"})
      => /\ ~lastResult'[1].bonusQueued
         /\ lastResult'[1].bonusQueuedType = "undefined"
         /\ ~pendingBonus'
         /\ pendingBonusType' = "null" ]_vars

\* 13 was drawn in mode 'random' with every kind enabled, and nothing was queued
C15_Witness ==
  /\ alwaysBonusMode = "random"
  /\ enabledBonusTypes = BonusTypes
  /\ lastResult # << >>
  /\ lastResult[1].drawnNumber = FREE_CELL_NUMBER
  /\ lastResult[1].bonusApplied
  /\ ~lastResult[1].bonusQueued
  /\ ~pendingBonus

\* C16: in always-fixed mode with a null kind or a kind without a registered
\* handler, a draw completes, activates nothing through a bonus, reports
\* bonusApplied false, no bonusType and no bonusNumbers, and leaves the
\* per-kind statistics as they were
C16_NoHandlerNoBonus ==
  [][ (/\ OneDraw
       /\ alwaysBonusMode = "fixed"
       /\ (alwaysBonusType = "null" \/ alwaysBonusType \notin BonusTypes))
      => /\ ~lastResult'[1].bonusApplied
         /\ lastResult'[1].bonusType = "undefined"
         /\ lastResult'[1].bonusNumbers = << >>
         /\ \A i \in Idx : (card'[i].isActive /\ ~sampleCard'[i].isActive)
                             => card'[i].number = lastResult'[1].drawnNumber
         /\ getTotalDraws(stats') = getTotalDraws(stats) + 1
         /\ stats'.bonusTypeStats = stats.bonusTypeStats ]_vars

\* 13 was drawn in always-fixed mode with a kind no handler is registered for
C16_Witness ==
  /\ alwaysBonusMode = "fixed"
  /\ alwaysBonusType = UnregisteredType
  /\ enabledBonusTypes = BonusTypes
  /\ lastResult # << >>
  /\ lastResult[1].drawnNumber = FREE_CELL_NUMBER
  /\ ~lastResult[1].bonusQueued
  /\ ~lastResult[1].bonusApplied
  /\ getTotalDraws(stats) >= 1

\* the score table 0->0, 1->1, 2->3, 3->10, 4->50, 5 or more->200
ScoreTable(n) == IF n >= 5 THEN 200 ELSE << 0, 1, 3, 10, 50 >>[n + 1]

\* C17: the score of every draw is the table's value at its linesCompleted, so
\* it is positive exactly when a line was completed, and the statistics count
\* the draw as a win exactly then
C17_ScoreTable ==
  /\ [](\A n \in 0..Len(ALL_LINES) : getScore(n) = ScoreTable(n))
  /\ [](lastResult # << >> =>
          /\ lastResult[1].score = ScoreTable(lastResult[1].linesCompleted)
          /\ (lastResult[1].score > 0 <=> lastResult[1].linesCompleted >= 1))
  /\ [][ OneDraw =>
           stats'.winCount = stats.winCount
                             + (IF lastResult'[1].linesCompleted >= 1 THEN 1 ELSE 0) ]_vars

\* a draw completed two lines and scored 3, after a draw that completed none
C17_Witness ==
  /\ lastResult # << >>
  /\ lastResult[1].linesCompleted = 2
  /\ lastResult[1].score = 3
  /\ getTotalDraws(stats) = 2
  /\ stats.winCount = 1

\* C18: the statistics count a draw as a hit exactly when its activatedNumbers
\* list is not empty, and that list holds the numbers of the cells the drawn
\* number or the bonus turned active; cells the pre-draw phase activated are
\* not in it
C18_HitIffActivated ==
  [][ OneDraw =>
        /\ stats'.hitCount = stats.hitCount
                             + (IF Len(lastResult'[1].activatedNumbers) > 0 THEN 1 ELSE 0)
        /\ SeqToSet(lastResult'[1].activatedNumbers)
             = {card'[i].number : i \in {j \in Idx : card'[j].isActive /\ ~sampleCard'[j].isActive}}
      ]_vars

\* the pre-draw phase activated cells and the draw itself none: no hit counted
C18_Witness ==
  /\ drawCalls = 1
  /\ \E i \in Idx : sampleCard[i].isActive /\ ~startCard[i].isActive
  /\ lastResult # << >>
  /\ lastResult[1].activatedNumbers = << >>
  /\ stats.hitCount = 0
  /\ getTotalDraws(stats) = 1

\* C19: execute() of every handler turns no active cell inactive and leaves
\* number, isFree, isLine and isReach alone; the list it returns holds, each
\* once, the numbers of the cells it turned active, so neither an already
\* active cell nor the free cell's 13 is in it
C19_HandlerFrame ==
  executed # << >> =>
    LET before == executed[1].cells
        activated == executed[1].activated
    IN /\ \A i \in Idx :
            /\ card[i].number = before[i].number
            /\ card[i].isFree = before[i].isFree
            /\ card[i].isLine = before[i].isLine
            /\ card[i].isReach = before[i].isReach
            /\ before[i].isActive => card[i].isActive
       /\ SeqToSet(activated)
            = {before[i].number : i \in {j \in Idx : card[j].isActive /\ ~before[j].isActive}}
       /\ NoDuplicates(activated)
       /\ FREE_CELL_NUMBER \notin SeqToSet(activated)

\* a handler was run on a card with marks; it found one target active and
\* turned another active
C19_Witness ==
  /\ executed # << >>
  /\ \E i \in Idx : executed[1].cells[i].isReach
  /\ Len(executed[1].activated) >= 1
  /\ Len(executed[1].activated)
       < Len(Targets(executed[1].type, executed[1].cells, executed[1].baseNumber, 0))
  /\ executed[1].type \notin RandomKinds

\* the column and the row of ALL_LINES through a cell
ColumnLineOf(i) == CHOOSE l \in ColumnLineIds : i \in LineCells[l]

\* C20: for every base number b in 1..25 the targets of the column-line
\* (row-line) handler are the cells of the column (row) of ALL_LINES through
\* index b-1, and after execute() the five cells of that line are active
C20_LineHandlersMatchLines ==
  /\ \A b \in 1..CARD_SIZE :
       /\ SeqToSet(Targets("ACTIVATE_COLUMN_LINE", card, b, 0)) = LineCells[ColumnLineOf(b - 1)]
       /\ SeqToSet(Targets("ACTIVATE_ROW_LINE", card, b, 0)) = LineCells[RowLineOf(b - 1)]
  /\ (executed # << >> /\ executed[1].baseNumber \in 1..CARD_SIZE) =>
       /\ executed[1].type = "ACTIVATE_COLUMN_LINE"
            => \A i \in LineCells[ColumnLineOf(executed[1].baseNumber - 1)] : card[i].isActive
       /\ executed[1].type = "ACTIVATE_ROW_LINE"
            => \A i \in LineCells[RowLineOf(executed[1].baseNumber - 1)] : card[i].isActive

\* the column-line handler was run on a column with active and inactive cells
C20_Witness ==
  /\ executed # << >>
  /\ executed[1].type = "ACTIVATE_COLUMN_LINE"
  /\ executed[1].baseNumber \in 1..CARD_SIZE
  /\ \E i \in LineCells[ColumnLineOf(executed[1].baseNumber - 1)] :
       executed[1].cells[i].isActive /\ ~executed[1].cells[i].isFree
  /\ \E i \in LineCells[ColumnLineOf(executed[1].baseNumber - 1)] : ~executed[1].cells[i].isActive
  /\ \A i \in LineCells[ColumnLineOf(executed[1].baseNumber - 1)] : card[i].isActive

\* the row and the column of a cell of the grid, and a distance
RowOf(i) == i % GRID_SIZE
ColOf(i) == i \div GRID_SIZE
Abs(x) == IF x < 0 THEN -x ELSE x

\* the cells one row away in the same column, one column away in the same
\* row, and one row and one column away
VerticalNeighbours(base) ==
  {i \in Idx : ColOf(i) = ColOf(base) /\ Abs(RowOf(i) - RowOf(base)) = 1}
HorizontalNeighbours(base) ==
  {i \in Idx : RowOf(i) = RowOf(base) /\ Abs(ColOf(i) - ColOf(base)) = 1}
DiagonalNeighbours(base) ==
  {i \in Idx : Abs(RowOf(i) - RowOf(base)) = 1 /\ Abs(ColOf(i) - ColOf(base)) = 1}

\* the neighbours a directional kind is to target
NeighboursOf(type, base) ==
  IF type = "ACTIVATE_VERTICAL" THEN VerticalNeighbours(base)
  ELSE IF type = "ACTIVATE_HORIZONTAL" THEN HorizontalNeighbours(base)
  ELSE IF type = "ACTIVATE_CROSS" THEN VerticalNeighbours(base) \cup HorizontalNeighbours(base)
  ELSE DiagonalNeighbours(base)

DirectionalKinds ==
  {"ACTIVATE_VERTICAL", "ACTIVATE_HORIZONTAL", "ACTIVATE_CROSS", "ACTIVATE_X_DIAGONAL"}

\* the target lists of the four directional kinds, for every base number
DirectionalTargetsExact ==
  \A b \in 1..CARD_SIZE : \A type \in DirectionalKinds :
    /\ SeqToSet(Targets(type, createInitialCard, b, 0)) = NeighboursOf(type, b - 1)
    /\ SeqToSet(Targets(type, createInitialCard, b, 0)) \subseteq Idx

\* C21: for every base number b in 1..25 the vertical, horizontal, cross and
\* X-diagonal handlers target exactly the in-bounds neighbours of index b-1
\* (same column one row away; same row one column away; both; one row and one
\* column away): no target is outside 0..24 and none wraps around an edge, and
\* after execute() the cells that changed are among those neighbours
C21_NeighbourTargets ==
  /\ DirectionalTargetsExact
  /\ (executed # << >> /\ executed[1].type \in DirectionalKinds
        /\ executed[1].baseNumber \in 1..CARD_SIZE) =>
       LET near == NeighboursOf(executed[1].type, executed[1].baseNumber - 1)
       IN /\ \A i \in near : card[i].isActive
          /\ \A i \in Idx \ near : card[i] = executed[1].cells[i]

\* the X-diagonal handler was run from the corner cell 5 (row 4, column 0) and
\* turned its one diagonal neighbour active
C21_Witness ==
  /\ executed # << >>
  /\ executed[1].type = "ACTIVATE_X_DIAGONAL"
  /\ executed[1].baseNumber = GRID_SIZE
  /\ Len(executed[1].activated) = 1
  /\ card[2 * GRID_SIZE - 2].isActive

\* C22: the box handler activates only cells whose row and whose column each
\* differ from the base cell's by at most 1, so a base cell on an edge never
\* activates a cell across that edge
C22_BoxStaysNearBase ==
  (executed # << >> /\ executed[1].type = "ACTIVATE_BOX"
     /\ executed[1].baseNumber \in 1..CARD_SIZE) =>
    \A i \in Idx :
      (card[i].isActive /\ ~executed[1].cells[i].isActive) =>
        /\ Abs(RowOf(i) - RowOf(executed[1].baseNumber - 1)) <= 1
        /\ Abs(ColOf(i) - ColOf(executed[1].baseNumber - 1)) <= 1

\* the kinds whose handler starts from getBaseIndex in bonus.ts
BaseKinds == DirectionalKinds \cup {"ACTIVATE_COLUMN_LINE", "ACTIVATE_ROW_LINE"}

\* C23: when the base number is missing (0) or outside 1..25, the vertical,
\* horizontal, cross, X-diagonal, column-line and row-line handlers return an
\* empty list and leave every cell unchanged
C23_MissingBaseIsNoOp ==
  (executed # << >> /\ executed[1].type \in BaseKinds
     /\ executed[1].baseNumber \notin 1..CARD_SIZE) =>
    /\ executed[1].activated = << >>
    /\ card = executed[1].cells

\* the row-line handler was run with base number 26 on a card with inactive
\* cells and returned the empty list
C23_Witness ==
  /\ executed # << >>
  /\ executed[1].type = "ACTIVATE_ROW_LINE"
  /\ executed[1].baseNumber = CARD_SIZE + 1
  /\ executed[1].activated = << >>
  /\ \E i \in Idx : ~card[i].isActive

\* a write by the holder of the array getCard() returned
WriteStep ==
  /\ snapshot # << >>
  /\ snapshot' # << >>
  /\ snapshot'[1].writes = snapshot[1].writes + 1

\* C24: the value getCard() returns is a snapshot independent of the engine's
\* card: a write to it by its holder leaves the engine's card as it was, and
\* the cell states read from it are not altered by a later draw()
C24_SnapshotIndependent ==
  [][/\ WriteStep => card' = card
     /\ (snapshot # << >> /\ OneDraw) => snapshot'[1].cells = snapshot[1].cells]_vars

\* the count a distribution holds for a number of lines, 0 when it has none
CountAt(m, n) == IF n \in DOMAIN m THEN m[n] ELSE 0

\* 1 for a flag that is set
Unit(flag) == IF flag THEN 1 ELSE 0

\* C25: record(stat) adds 1 to totalDraws, 1 to hitCount iff stat.isHit, 1 to
\* winCount iff stat.isWin, linesCompleted to totalLines, score to totalScore,
\* activeCount to totalActiveCount and 1 to the distribution bucket of
\* linesCompleted; the other buckets keep their counts, and the per-kind
\* aggregates change only when bonusApplied holds with a kind, and then only
\* those of that kind
C25_RecordFrame ==
  recorded # << >> =>
    LET before == recorded[1].before
        stat == recorded[1].stat
        withKind == stat.bonusApplied /\ stat.bonusType # "undefined"
    IN /\ stats.totalDraws = before.totalDraws + 1
       /\ stats.hitCount = before.hitCount + Unit(stat.isHit)
       /\ stats.winCount = before.winCount + Unit(stat.isWin)
       /\ stats.totalLines = before.totalLines + stat.linesCompleted
       /\ stats.totalScore = before.totalScore + stat.score
       /\ stats.totalActiveCount = before.totalActiveCount + stat.activeCount
       /\ DOMAIN stats.linesDistribution
            = DOMAIN before.linesDistribution \cup {stat.linesCompleted}
       /\ \A n \in DOMAIN stats.linesDistribution :
            stats.linesDistribution[n]
              = CountAt(before.linesDistribution, n) + Unit(n = stat.linesCompleted)
       /\ ~withKind => stats.bonusTypeStats = before.bonusTypeStats
       /\ withKind =>
            /\ DOMAIN stats.bonusTypeStats = DOMAIN before.bonusTypeStats \cup {stat.bonusType}
            /\ \A t \in DOMAIN stats.bonusTypeStats \ {stat.bonusType} :
                 stats.bonusTypeStats[t] = before.bonusTypeStats[t]
            /\ stats.bonusTypeStats[stat.bonusType].appliedCount
                 = getOrCreateBonusStats(before, stat.bonusType).appliedCount + 1

\* a second record call carried a hit without a win, two lines and a kind
\* other than the one recorded before, whose bucket and aggregates it kept
C25_Witness ==
  /\ recorded # << >>
  /\ recorded[1].before.totalDraws = 1
  /\ recorded[1].stat.isHit /\ ~recorded[1].stat.isWin
  /\ recorded[1].stat.linesCompleted = 2
  /\ CountAt(stats.linesDistribution, 0) = 1
  /\ recorded[1].stat.bonusApplied /\ recorded[1].stat.bonusType = "ACTIVATE_CROSS"
  /\ "ACTIVATE_ROW_LINE" \in DOMAIN stats.bonusTypeStats

\* a line with exactly four active cells and one inactive cell
HasReachLine(c) ==
  \E l \in LineIds : LineActiveCount(c, l) = 4 /\ LineInactiveCount(c, l) = 1

\* C26: with randomization on, the card at sampling time has at least one
\* line with exactly four active cells and one inactive cell: a rebuild
\* attempt within the twelve yields one, or the forced swap finds a candidate
\* and makes one
C26_ReachAfterRandomization ==
  (loopPc = "sampled" /\ randomizeBoardEachDraw) =>
    /\ HasReachLine(card)
    /\ hasReachCells(card)

\* twelve rebuild attempts ended without a reach and the forced swap made one
C26_Witness ==
  /\ loopPc = "sampled"
  /\ randomizeBoardEachDraw
  /\ attempts = maxAttempts
  /\ swaps = 1
  /\ HasReachLine(card)

\* the iterations a loop of draw() has left at most, and its exit
Remaining ==
  IF loopPc = "reach" THEN CARD_SIZE - attempts + 1
  ELSE IF loopPc = "rebuild" THEN maxAttempts - attempts + 2
  ELSE 0

\* C30: every draw() terminates: its reach-forcing loop makes at most 25
\* activations, its randomization at most 12 rebuild attempts followed by at
\* most one forced swap; every step of a loop lowers the number of steps it
\* has left, and a draw that entered one of the two loops comes to its sampling
C30_DrawTerminates ==
  /\ [](/\ attempts <= CARD_SIZE
        /\ swaps <= 1
        /\ (loopPc = "rebuild" \/ swaps = 1) => attempts <= maxAttempts
        /\ (swaps = 1 /\ loopPc # "idle") => loopPc = "sampled"
        /\ Remaining >= 0)
  /\ [][(loopPc \in {"reach", "rebuild"}) => (Remaining' < Remaining)]_vars
  /\ (loopPc \in {"reach", "rebuild"}) ~> (loopPc = "sampled")

\* a draw returned after twelve rebuild attempts and a forced swap
C30_Witness ==
  /\ loopPc = "idle"
  /\ drawCalls = 1
  /\ attempts = maxAttempts
  /\ swaps = 1
  /\ lastResult # << >>

\* C27: a bonus pending at the start of a draw in mode 'none' is consumed by
\* that draw: it is applied unless no kind is enabled, the flag is cleared even
\* then, and it is set again only when this draw drew 13 and queued a new
\* bonus, whose kind is then the pending one
C27_PendingConsumedByNextDraw ==
  [][(OneDraw /\ alwaysBonusMode = "none" /\ pendingBonus) =>
       LET r == lastResult'[1]
       IN /\ pendingBonus' <=> r.bonusQueued
          /\ r.bonusQueued => (r.drawnNumber = FREE_CELL_NUMBER
                                 /\ pendingBonusType' = r.bonusQueuedType)
          /\ ~r.bonusQueued => pendingBonusType' = "null"
          /\ ~r.bonusApplied => enabledBonusTypes \cap BonusTypes = {}]_vars

\* a draw that began with a pending bonus applied it and, having drawn 13,
\* queued the next one
C27_Witness ==
  /\ alwaysBonusMode = "none"
  /\ drawCalls = 2
  /\ startPendingType # "null"
  /\ lastResult # << >>
  /\ lastResult[1].bonusApplied
  /\ lastResult[1].bonusQueued
  /\ pendingBonus

\* C28: isDrawnHit holds exactly when the drawn number is not 13 and its cell
\* was inactive when the number was sampled; a draw of 13 never sets it, and
\* it never holds together with bonusQueued
C28_DrawnHitExact ==
  [][OneDraw =>
       LET r == lastResult'[1]
           cell == CHOOSE i \in Idx : sampleCard'[i].number = r.drawnNumber
       IN /\ r.isDrawnHit <=> (r.drawnNumber # FREE_CELL_NUMBER /\ ~sampleCard'[cell].isActive)
          /\ r.drawnNumber = FREE_CELL_NUMBER => ~r.isDrawnHit
          /\ ~(r.isDrawnHit /\ r.bonusQueued)
          /\ r.isDrawnHit => card'[cell].isActive]_vars

\* the last draw hit the inactive cell of its number, which is now active,
\* after a draw that had queued a bonus
C28_Witness ==
  /\ drawCalls = 2
  /\ startPendingType # "null"
  /\ lastResult # << >>
  /\ lastResult[1].isDrawnHit
  /\ lastResult[1].drawnNumber # FREE_CELL_NUMBER
  /\ ~sampleCard[lastResult[1].drawnNumber - 1].isActive
  /\ card[lastResult[1].drawnNumber - 1].isActive

\* the non-free cells of a card that are inactive
InactiveCells(c) == {i \in Idx : ~c[i].isActive /\ ~c[i].isFree}

\* C29: the random-one handler activates exactly one cell, an inactive
\* non-free one, and returns its number whenever the card has such a cell; it
\* returns the empty list, changing nothing, only when all 25 cells are active
C29_RandomOneNeverMisses ==
  (executed # << >> /\ executed[1].type = "UNLOCK_RANDOM_ONE") =>
    LET before == executed[1].cells
        activated == executed[1].activated
        changed == {i \in Idx : card[i] # before[i]}
    IN /\ InactiveCells(before) # {} =>
            /\ Len(activated) = 1
            /\ Cardinality(changed) = 1
            /\ changed \subseteq InactiveCells(before)
            /\ \A i \in changed :
                 /\ card[i] = [before[i] EXCEPT !.isActive = TRUE]
                 /\ activated[1] = before[i].number
       /\ activated = << >> =>
            /\ \A i \in Idx : before[i].isActive
            /\ card = before

\* the random-one handler was run on a card with a full column and with
\* inactive cells and turned one of them active
C29_Witness ==
  /\ executed # << >>
  /\ executed[1].type = "UNLOCK_RANDOM_ONE"
  /\ \E l \in ColumnLineIds : \A i \in LineCells[l] : executed[1].cells[i].isActive
  /\ Cardinality(InactiveCells(executed[1].cells)) >= 2
  /\ Len(executed[1].activated) = 1
  /\ Cardinality(InactiveCells(card)) = Cardinality(InactiveCells(executed[1].cells)) - 1

\* ---------------------------------------------------------------------------
\* the engine reconfigured between draws: the three setters called more than
\* once in a run, on the configurations the always-bonus claims are about

MaxConfigCalls == 2

ConfigModeInputs ==
  { << "none", "null" >>, << "disabled", "null" >>,
    << "fixed", "ACTIVATE_ROW_LINE" >>, << "fixed", "ACTIVATE_COLUMN_LINE" >> }

ConfigEnabledInputs == { BonusTypes, {} }

\* a setAlwaysBonusSetting that leaves a queued bonus in place
ReconfigureAlwaysBonusKeepingPending ==
  /\ setterCalls < MaxConfigCalls
  /\ \E in \in ConfigModeInputs :
       /\ alwaysBonusMode' = in[1]
       /\ alwaysBonusType' = (IF in[1] = "fixed" THEN in[2] ELSE "null")
       /\ modeChanged' = (modeChanged \/ in[1] # alwaysBonusMode)
  /\ setterCalls' = setterCalls + 1
  /\ returned' = << >>
  /\ resetsInARow' = 0
  /\ UNCHANGED << card, lastResult, pendingBonus, pendingBonusType, enabledBonusTypes,
                  randomizeBoardEachDraw, stats, startCard, startPendingType, resetCard,
                  sampleCard, drawCalls, executed, snapshot, apart >>

\* setAlwaysBonusSetting(mode, type)
ReconfigureAlwaysBonus ==
  /\ setterCalls < MaxConfigCalls
  /\ \E in \in ConfigModeInputs :
       /\ alwaysBonusMode' = in[1]
       /\ alwaysBonusType' = (IF in[1] = "fixed" THEN in[2] ELSE "null")
       /\ pendingBonus' = (IF in[1] # "none" THEN FALSE ELSE pendingBonus)
       /\ pendingBonusType' = (IF in[1] # "none" THEN "null" ELSE pendingBonusType)
       /\ modeChanged' = (modeChanged \/ in[1] # alwaysBonusMode)
  /\ setterCalls' = setterCalls + 1
  /\ returned' = << >>
  /\ resetsInARow' = 0
  /\ UNCHANGED << card, lastResult, enabledBonusTypes, randomizeBoardEachDraw, stats,
                  startCard, startPendingType, resetCard, sampleCard, drawCalls,
                  executed, snapshot, apart >>

\* setEnabledBonusTypes(types)
ReconfigureEnabledBonusTypes ==
  /\ setterCalls < MaxConfigCalls
  /\ \E types \in ConfigEnabledInputs : enabledBonusTypes' = types
  /\ setterCalls' = setterCalls + 1
  /\ returned' = << >>
  /\ resetsInARow' = 0
  /\ UNCHANGED << card, lastResult, pendingBonus, pendingBonusType, alwaysBonusMode,
                  alwaysBonusType, randomizeBoardEachDraw, stats, startCard, startPendingType,
                  resetCard, sampleCard, modeChanged, drawCalls, executed, snapshot, apart >>

\* setRandomizeBoardEachDraw(enabled)
ReconfigureRandomizeBoard ==
  /\ setterCalls < MaxConfigCalls
  /\ \E enabled \in BOOLEAN : randomizeBoardEachDraw' = enabled
  /\ setterCalls' = setterCalls + 1
  /\ returned' = << >>
  /\ resetsInARow' = 0
  /\ UNCHANGED << card, lastResult, pendingBonus, pendingBonusType, alwaysBonusMode,
                  alwaysBonusType, enabledBonusTypes, stats, startCard, startPendingType,
                  resetCard, sampleCard, modeChanged, drawCalls, executed, snapshot, apart >>

NextConfig ==
  \/ Draw
  \/ ReconfigureAlwaysBonus
  \/ ReconfigureEnabledBonusTypes
  \/ ReconfigureRandomizeBoard

SpecConfig == Init /\ [][NextConfig]_vars

\* ---------------------------------------------------------------------------
\* the always-bonus modes and the enabled kinds

\* the kinds of the registry a random pick can return in this state
SelectableKinds == SeqToSet(getEnabledHandlers)

\* C31: the enabled set only filters random selection: a draw in always-fixed
\* mode applies the configured kind whether or not it is enabled, also with an
\* empty enabled set; a kind a draw queues is an enabled kind; and a call of
\* setEnabledBonusTypes changes nothing but the set, after it the selectable
\* kinds are the registered kinds of the new set, whatever the set was before
C31_EnabledSetFiltersRandomOnly ==
  [][ /\ (OneDraw /\ alwaysBonusMode = "fixed" /\ alwaysBonusType \in BonusTypes)
          => /\ lastResult'[1].bonusApplied
             /\ lastResult'[1].bonusType = alwaysBonusType
      /\ (OneDraw /\ lastResult'[1].bonusQueued)
          => lastResult'[1].bonusQueuedType \in enabledBonusTypes
      /\ (enabledBonusTypes' # enabledBonusTypes)
          => /\ UNCHANGED << card, lastResult, pendingBonus, pendingBonusType,
                             alwaysBonusMode, alwaysBonusType, randomizeBoardEachDraw, stats >>
             /\ SelectableKinds' = enabledBonusTypes' \cap BonusTypes ]_vars

\* the second draw of a run applied the fixed kind while no kind was enabled;
\* the mode was made 'fixed' after the first draw
C31_Witness ==
  /\ alwaysBonusMode = "fixed"
  /\ alwaysBonusType = "ACTIVATE_ROW_LINE"
  /\ enabledBonusTypes = {}
  /\ drawCalls = 2
  /\ lastResult # << >>
  /\ lastResult[1].bonusApplied
  /\ lastResult[1].bonusType = "ACTIVATE_ROW_LINE"
  /\ stats.totalDraws = 2
  /\ "ACTIVATE_ROW_LINE" \in DOMAIN stats.bonusTypeStats
  /\ stats.bonusTypeStats["ACTIVATE_ROW_LINE"].appliedCount = 1

NothingPending == ~pendingBonus /\ pendingBonusType = "null"

FullLines(c) == {l \in LineIds : \A i \in LineCells[l] : c[i].isActive}

\* C33: in both board modes no line is fully active on the card the number is
\* sampled on; every line a draw counts holds a cell the draw activated, its
\* number listed in activatedNumbers; so a draw counted as a win is counted
\* as a hit, and winCount never exceeds hitCount
C33_WinsAreHits ==
  /\ [](stats.winCount <= stats.hitCount)
  /\ [][ OneDraw =>
           /\ FullLines(sampleCard') = {}
           /\ lastResult'[1].linesCompleted = Cardinality(FullLines(card'))
           /\ \A l \in FullLines(card') :
                 \E i \in LineCells[l] :
                   /\ ~sampleCard'[i].isActive
                   /\ card'[i].number \in SeqToSet(lastResult'[1].activatedNumbers)
           /\ (stats'.winCount > stats.winCount) => (stats'.hitCount > stats.hitCount) ]_vars

\* with randomization on, a draw completed a line and was counted as a win
\* and as a hit; the draw before it was a hit and no win
C33_Witness ==
  /\ randomizeBoardEachDraw
  /\ drawCalls = 2
  /\ lastResult # << >>
  /\ lastResult[1].linesCompleted >= 1
  /\ stats.winCount = 1
  /\ stats.hitCount = 2

\* ---------------------------------------------------------------------------
\* reset() and the configuration

OneReset == resetsInARow' = resetsInARow + 1

\* C34: reset() leaves no pending bonus and no last result, and leaves the
\* always-bonus mode, the fixed kind, the enabled set and the randomization
\* flag as they were; a draw in mode 'none' on an engine without a last
\* result, the first draw after a reset, applies no bonus
C34_ResetKeepsConfiguration ==
  [][ /\ OneReset
          => /\ lastResult' = << >>
             /\ ~pendingBonus'
             /\ pendingBonusType' = "null"
             /\ UNCHANGED << alwaysBonusMode, alwaysBonusType, enabledBonusTypes,
                            randomizeBoardEachDraw >>
      /\ (OneDraw /\ lastResult = << >> /\ alwaysBonusMode = "none")
          => /\ ~lastResult'[1].bonusApplied
             /\ lastResult'[1].bonusNumbers = << >> ]_vars

\* a reset on an engine whose enabled set had been restricted
C34_Witness ==
  /\ resetsInARow = 1
  /\ lastResult = << >>
  /\ ~pendingBonus
  /\ enabledBonusTypes = {"RANDOM_THREE_WITH_MISS", "ACTIVATE_COLUMN_LINE"}
  /\ setterCalls = 1

\* ---------------------------------------------------------------------------
\* the statistics by kind

\* the sum of the values of a map of counts
RECURSIVE SumOver(_, _)
SumOver(m, keys) ==
  IF keys = {} THEN 0
  ELSE LET key == CHOOSE x \in keys : TRUE IN m[key] + SumOver(m, keys \ {key})

MapSum(m) == SumOver(m, DOMAIN m)

\* the sum of appliedCount over the kinds
AppliedTotal(st) ==
  MapSum([t \in DOMAIN st.bonusTypeStats |-> st.bonusTypeStats[t].appliedCount])

\* C35: for every kind the counts of its lines distribution add up to its
\* appliedCount; the sum of appliedCount over the kinds is 0 after a reset,
\* grows by one with every draw that reports bonusApplied and stays with every
\* other draw, so it is the number of such draws since the last reset, and
\* it is never more than totalDraws
C35_BonusStatsAddUp ==
  /\ [](/\ \A t \in DOMAIN stats.bonusTypeStats :
              MapSum(stats.bonusTypeStats[t].linesDistribution)
                = stats.bonusTypeStats[t].appliedCount
        /\ AppliedTotal(stats) <= getTotalDraws(stats))
  /\ [][ /\ OneDraw =>
             AppliedTotal(stats') = AppliedTotal(stats)
                                    + (IF lastResult'[1].bonusApplied THEN 1 ELSE 0)
         /\ OneReset => AppliedTotal(stats') = 0 ]_vars

\* two draws applied the same kind and completed different numbers of lines
C35_Witness ==
  \E t \in DOMAIN stats.bonusTypeStats :
    /\ stats.bonusTypeStats[t].appliedCount = 2
    /\ Cardinality(DOMAIN stats.bonusTypeStats[t].linesDistribution) = 2

\* ---------------------------------------------------------------------------
\* the fields of a DrawResult

\* C36: in every DrawResult activatedNumbers is the drawn number, present
\* exactly when isDrawnHit, followed by bonusNumbers; it has no duplicates,
\* does not hold 13, and each of its numbers is the number of a cell active on
\* the card the draw leaves; bonusApplied holds exactly when bonusType is
\* present, bonusQueued exactly when bonusQueuedType is present, and
\* bonusNumbers is empty when no bonus was applied
C36_DrawResultConsistent ==
  lastResult # << >> =>
    LET r == lastResult[1]
    IN /\ r.activatedNumbers
            = (IF r.isDrawnHit THEN << r.drawnNumber >> ELSE << >>) \o r.bonusNumbers
       /\ NoDuplicates(r.activatedNumbers)
       /\ FREE_CELL_NUMBER \notin SeqToSet(r.activatedNumbers)
       /\ \A j \in 1..Len(r.activatedNumbers) :
             \E i \in Idx : card[i].number = r.activatedNumbers[j] /\ card[i].isActive
       /\ (r.bonusApplied <=> r.bonusType # "undefined")
       /\ (r.bonusApplied => r.bonusType \in BonusTypes)
       /\ (r.bonusQueued <=> r.bonusQueuedType # "undefined")
       /\ (r.bonusQueued => r.bonusQueuedType \in BonusTypes)
       /\ (~r.bonusApplied => r.bonusNumbers = << >>)

\* a draw hit its number and a bonus activated further cells
C36_Witness ==
  /\ lastResult # << >>
  /\ lastResult[1].isDrawnHit
  /\ lastResult[1].bonusApplied
  /\ Len(lastResult[1].bonusNumbers) >= 2
  /\ Len(lastResult[1].activatedNumbers) = Len(lastResult[1].bonusNumbers) + 1

\* ---------------------------------------------------------------------------
\* the always-bonus modes draw by draw

LineKinds == {"ACTIVATE_ROW_LINE", "ACTIVATE_COLUMN_LINE"}

\* C37: in always-fixed mode with the row-line or the column-line kind every
\* draw, whatever number it draws and in both board modes, completes at least
\* one line, scores at least 1 and is counted as a win
C37_FixedLineKindAlwaysWins ==
  [][ (OneDraw /\ alwaysBonusMode = "fixed" /\ alwaysBonusType \in LineKinds)
      => /\ lastResult'[1].bonusApplied
         /\ lastResult'[1].linesCompleted >= 1
         /\ lastResult'[1].score >= 1
         /\ stats'.winCount = stats.winCount + 1 ]_vars

\* 13 was drawn on a randomized board in always-fixed mode with the
\* column-line kind, and the draw completed a line
C37_Witness ==
  /\ alwaysBonusMode = "fixed"
  /\ alwaysBonusType = "ACTIVATE_COLUMN_LINE"
  /\ randomizeBoardEachDraw
  /\ lastResult # << >>
  /\ lastResult[1].drawnNumber = FREE_CELL_NUMBER
  /\ lastResult[1].bonusType = "ACTIVATE_COLUMN_LINE"
  /\ lastResult[1].linesCompleted >= 1
  /\ Cardinality(ActiveCells(sampleCard)) = targetActiveCount

\* C38: a draw in mode 'disabled' applies no bonus and queues none: its
\* bonusNumbers are empty, the per-kind statistics stay as they are, and when
\* it draws 13 no cell turns active; the step that enters the mode leaves
\* nothing pending, so a bonus queued before it is dropped
C38_DisabledModeNoBonus ==
  [][ /\ (OneDraw /\ alwaysBonusMode = "disabled")
          => /\ ~lastResult'[1].bonusApplied
             /\ lastResult'[1].bonusType = "undefined"
             /\ lastResult'[1].bonusNumbers = << >>
             /\ ~lastResult'[1].bonusQueued
             /\ NothingPending'
             /\ stats'.bonusTypeStats = stats.bonusTypeStats
             /\ \A i \in Idx : (card'[i].isActive /\ ~sampleCard'[i].isActive)
                                 => card'[i].number = lastResult'[1].drawnNumber
             /\ lastResult'[1].drawnNumber = FREE_CELL_NUMBER
                 => /\ lastResult'[1].activatedNumbers = << >>
                    /\ ActiveCells(card') = ActiveCells(sampleCard')
      /\ (alwaysBonusMode # "disabled" /\ alwaysBonusMode' = "disabled")
          => NothingPending' ]_vars

\* the second draw of a run drew 13 in mode 'disabled' and activated nothing
C38_Witness ==
  /\ alwaysBonusMode = "disabled"
  /\ drawCalls = 2
  /\ lastResult # << >>
  /\ lastResult[1].drawnNumber = FREE_CELL_NUMBER
  /\ lastResult[1].activatedNumbers = << >>
  /\ ~lastResult[1].bonusApplied
  /\ stats.bonusTypeStats = EmptyMap

\* ---------------------------------------------------------------------------
\* the randomization over orders of the shuffle that make the fill skip cells

\* the non-free cells row by row and column by column
RowByRow == SelectSeq(Iota(CARD_SIZE), LAMBDA idx : idx # FREE_CELL_NUMBER - 1)
ColumnByColumn ==
  SelectSeq(List([j \in 1..CARD_SIZE |-> ((j - 1) % GRID_SIZE) * GRID_SIZE + ((j - 1) \div GRID_SIZE)]),
            LAMBDA idx : idx # FREE_CELL_NUMBER - 1)

Rotate(items, n) == SubSeq(items, n + 1, Len(items)) \o SubSeq(items, 1, n)

\* orders shuffle(pickableIndices) can leave: lines walked cell after cell
\* from any start, and the orders of the sparse boards
SkippingOrders ==
  { Rotate(RowByRow, n) : n \in 0..(CARD_SIZE - 2) }
  \cup { Rotate(ColumnByColumn, n) : n \in 0..(CARD_SIZE - 2) }
  \cup ShuffledOrders

\* the boards resetBoard(); fillRandomly() leaves under these orders
FillOutcomesInOrder(c) ==
  { fillRandomly(resetBoard(c), k) : k \in Rand }
  \cup { FillLoop(resetBoard(c), order, 1, 0, Max(0, Min(targetActiveCount - 1, Len(order))))
         : order \in SkippingOrders }

\* one attempt of the for loop of randomizeBoardActiveState
RebuildAttemptInOrder ==
  /\ loopPc = "rebuild"
  /\ attempts < maxAttempts
  /\ \E filled \in { updateReachStatus(f) : f \in FillOutcomesInOrder(card) } :
       /\ card' = filled
       /\ loopPc' = IF hasReachCells(filled) THEN "sampled" ELSE "rebuild"
  /\ attempts' = attempts + 1
  /\ snapshot' = SeenThrough(snapshot, card')
  /\ UNCHANGED << lastResult, pendingBonus, pendingBonusType, config, stats, startCard,
                  startPendingType, resetCard, sampleCard, modeChanged, drawCalls, returned,
                  setterCalls, resetsInARow, executed, recorded, swaps >>

NextOrders ==
  \/ ConfigureBetweenDraws
  \/ BeginDraw
  \/ ReachIteration
  \/ RebuildAttemptInOrder
  \/ ForcedSwap
  \/ FinishDraw

SpecOrders == Init /\ [][NextOrders]_vars

ActiveCount(c) == Cardinality(ActiveCells(c))

\* C39: with randomization on, the card the number is sampled on has exactly
\* 13 active cells, the free cell and 12 others: every rebuild attempt ends
\* with 12 cells activated however many cells it skipped, and the forced swap
\* leaves the count as it is
C39_ThirteenActiveAtSampling ==
  /\ []((loopPc \in {"rebuild", "sampled"} /\ randomizeBoardEachDraw /\ attempts > 0)
          => /\ ActiveCount(card) = targetActiveCount
             /\ card[FREE_CELL_NUMBER - 1].isActive)
  /\ [][ (OneDraw /\ randomizeBoardEachDraw)
          => /\ ActiveCount(sampleCard') = targetActiveCount
             /\ sampleCard' = card ]_vars

\* a fill skipped cells on its way to twelve, none of the attempts made a
\* reach, and the forced swap was made
C39_Witness ==
  /\ loopPc = "sampled"
  /\ randomizeBoardEachDraw
  /\ attempts = maxAttempts
  /\ swaps = 1
  /\ ActiveCount(card) = targetActiveCount
  /\ hasReachCells(card)

====
